---- MODULE Spec2Model ----
(***************************************************************************)
(* Model of the kokoro phonemizer and the model/voice caches of            *)
(* examples/extension/src/background.js.                                   *)
(*                                                                         *)
(* A JavaScript string is a sequence of characters, each character a       *)
(* one-character string.  Offsets are 0-based as in the source:            *)
(* Slice(s, a, b) is s.slice(a, b).                                        *)
(***************************************************************************)
EXTENDS Integers, Sequences, FiniteSets, TLC

VARIABLES
    \* ---- split applied to one input (the Chunker on its own)
    splitText,      \* the argument `text` of split
    splitOut,       \* the array split returned
    splitPc,        \* "ready" before the call, "done" after it
    \* ---- module-level state of phonemize.js
    patternLastIndex,   \* PUNCTUATION_PATTERN.lastIndex (a global regex object)
    \* ---- the calls of phonemize, each an async function in flight
    phArgs,         \* [text, language, norm]: the arguments of the call
    phPc,           \* "idle", "awaiting" (at the await of Promise.all), "returned", "thrown"
    phSections,     \* const sections
    phSlots,        \* the promises sections.map gives Promise.all, one per section
    phAll,          \* the state of the Promise.all promise
    phPs,           \* const ps
    phResult,       \* the string the call returned
    phError,        \* the error the call threw
    \* ---- the phoneme backend (espeakng, an external collaborator)
    phInvoked,      \* per call, the backend invocations made, in order
    phSettled,      \* per call, the backend invocations settled, in order of completion
    g2p,            \* the backend's (text, dialect) -> phonemes table, as far as revealed
    \* ---- KokoroPipelineSingleton.getVoiceData and its callers
    voiceCache,     \* static voiceCache: voice -> voice data (NoData: no entry)
    gvPc,           \* per caller: "idle", "fetching", "reading", "returned", "thrown"
    gvVoice,        \* per caller: the argument `voice`
    gvFetch,        \* per caller: which fetch of fetchLog is its own (0: none)
    gvOut,          \* per caller: what its last call returned or threw
    gvCalls,        \* the number of calls of getVoiceData made so far
    fetchLog,       \* the voices fetched from the network, in the order of the fetches
    \* ---- the model-pipeline singletons and the callers of their getInstance
    siInstance,     \* per class: static instance (NoInstance: null)
    siPromise,      \* the state of the promise PipelineSingleton.instance holds
    siStarted,      \* per class: the loads started, in order ("pipeline", "tokenizer", "model")
    siPc,           \* per class and caller: where its getInstance call is
    siMine,         \* per class and caller: which load of siStarted the call awaits
    siOut,          \* per class and caller: the instance its last call returned
    kkTokenizer,    \* KokoroPipelineSingleton.tokenizer (0: null)
    kkModel,        \* KokoroPipelineSingleton.model (0: null)
    siCalls,        \* the number of getInstance calls made so far
    \* ---- normalize_text applied to one input, and again to its own output
    nzKind,         \* what the input is built around: "free", "time", "year", "money", ...
    nzBefore,       \* the input text: nzBefore, nzToken and nzAfter, concatenated
    nzToken,
    nzAfter,
    nzPc,           \* "ready", "done" (normalized once), "again" (normalized twice)
    nzCalls,        \* the calls of split_num, flip_money and point_num made, in order
    nzThrew,        \* whether the call of normalize_text threw
    nzOut,          \* what normalize_text returned
    nzAgain,        \* what normalize_text returned for nzOut
    \* ---- the calls of KokoroPipelineSingleton.instance.generate
    genPc,          \* per caller: where its generate call is
    genVoice,       \* per caller: the voice of the call (the default filled in)
    genCalls,       \* per caller: what the call has invoked so far, in order
    genOut,         \* per caller: what the call returned or threw
    \* ---- the chrome.runtime.onMessage listener, per message
    lsPc,           \* where the handling of the message is
    lsMessage,      \* the message: its action and its text
    lsReturn,       \* what the listener returned for the message
    lsSent          \* the arguments of the calls of sendResponse, in order

splitVars == <<splitText, splitOut, splitPc>>
phVars == <<phArgs, phPc, phSections, phSlots, phAll, phPs, phResult, phError,
            phInvoked, phSettled, g2p>>
voiceVars == <<voiceCache, gvPc, gvVoice, gvFetch, gvOut, gvCalls, fetchLog>>
siVars == <<siInstance, siPromise, siStarted, siPc, siMine, siOut, kkTokenizer, kkModel,
            siCalls>>
nzVars == <<nzKind, nzBefore, nzToken, nzAfter, nzPc, nzCalls, nzThrew, nzOut, nzAgain>>
genVars == <<genPc, genVoice, genCalls, genOut>>
lsVars == <<lsPc, lsMessage, lsReturn, lsSent>>

(***************************************************************************)
(* Bounds of the model.                                                    *)
(***************************************************************************)
MaxSplitLen == 4
MaxTextLen == 3
MaxVoiceCalls == 4
MaxInstanceCalls == 3
MaxNormLen == 6
MaxQuoteLen == 3

(***************************************************************************)
(* Strings.                                                                *)
(***************************************************************************)
Slice(s, a, b) == SubSeq(s, a + 1, b)

RECURSIVE Concat(_)
Concat(ss) == IF ss = <<>> THEN <<>> ELSE Head(ss) \o Concat(Tail(ss))

RECURSIVE StringsUpTo(_, _)
StringsUpTo(alphabet, n) ==
    IF n = 0 THEN {<<>>}
    ELSE LET shorter == StringsUpTo(alphabet, n - 1)
         IN  shorter \cup {Append(s, c) : s \in shorter, c \in alphabet}

\* Characters outside ASCII are written by their code point.
InvExcl  == "U+00A1"    \* inverted exclamation mark
InvQuest == "U+00BF"    \* inverted question mark
LGuil    == "U+00AB"    \* left guillemet
RGuil    == "U+00BB"    \* right guillemet
EmDash   == "U+2014"
Ellipsis == "U+2026"
LSQuo    == "U+2018"    \* left curly single quote
RSQuo    == "U+2019"    \* right curly single quote
LDQuo    == "U+201C"    \* left curly double quote
RDQuo    == "U+201D"    \* right curly double quote
Pound    == "U+00A3"    \* pound sign
Nbsp     == "U+00A0"    \* no-break space
CjkComma == "U+3001"    \* ideographic comma
CjkStop  == "U+3002"    \* ideographic full stop
FwExcl   == "U+FF01"    \* fullwidth exclamation mark
FwComma  == "U+FF0C"    \* fullwidth comma
FwColon  == "U+FF1A"    \* fullwidth colon
FwSemi   == "U+FF1B"    \* fullwidth semicolon
FwQuest  == "U+FF1F"    \* fullwidth question mark
Schwa    == "U+0259"    \* phoneme symbols of the post-processing rules
Stress   == "U+02C8"    \* primary stress mark
LenMark  == "U+02D0"    \* length mark
TurnedR  == "U+0279"
Upsilon  == "U+028A"
OpenO    == "U+0254"
PalatalJ == "U+02B2"    \* palatalization mark
BeltedL  == "U+026C"    \* lateral fricative
Wedge    == "U+028C"
SmallI   == "U+026A"

\* \s of a JavaScript regular expression (the members the model's inputs use)
WhiteSpace == {" ", "\t", "\n", "\r", "\f", Nbsp}

\* the white space of [^\S \n]: every \s character but the space and the newline
OddSpace == WhiteSpace \ {" ", "\n"}

Lower26 == <<"a", "b", "c", "d", "e", "f", "g", "h", "i", "j", "k", "l", "m",
             "n", "o", "p", "q", "r", "s", "t", "u", "v", "w", "x", "y", "z">>
Upper26 == <<"A", "B", "C", "D", "E", "F", "G", "H", "I", "J", "K", "L", "M",
             "N", "O", "P", "Q", "R", "S", "T", "U", "V", "W", "X", "Y", "Z">>
Digits10 == <<"0", "1", "2", "3", "4", "5", "6", "7", "8", "9">>

Lower == {Lower26[i] : i \in 1..26}         \* [a-z]
Upper == {Upper26[i] : i \in 1..26}         \* [A-Z]
Letter == Lower \cup Upper                  \* [A-Za-z], and [A-Z] under the i flag
Digit == {Digits10[i] : i \in 1..10}        \* \d
WordChar == Letter \cup Digit \cup {"_"}    \* \w

\* the lower-case form of a character (comparison under the i flag)
LowerOf(c) == IF c \in Upper THEN Lower26[CHOOSE i \in 1..26 : Upper26[i] = c] ELSE c

\* the character at offset i, or "" outside the string
At(text, i) == IF i >= 0 /\ i < Len(text) THEN text[i + 1] ELSE ""

\* the offset after the longest run of characters of `class` that starts at i
RECURSIVE SkipClass(_, _, _)
SkipClass(text, i, class) ==
    IF i < Len(text) /\ text[i + 1] \in class
    THEN SkipClass(text, i + 1, class)
    ELSE i

\* whether `lit` stands in text at offset i; LitAtI compares under the i flag
LitAt(text, i, lit) ==
    /\ i >= 0
    /\ i + Len(lit) <= Len(text)
    /\ \A k \in 1..Len(lit) : text[i + k] = lit[k]

LitAtI(text, i, lit) ==
    /\ i >= 0
    /\ i + Len(lit) <= Len(text)
    /\ \A k \in 1..Len(lit) : LowerOf(text[i + k]) = LowerOf(lit[k])

\* \b at offset i: exactly one of the characters around the offset is a word character
WordBoundary(text, i) == (At(text, i - 1) \in WordChar) # (At(text, i) \in WordChar)

(***************************************************************************)
(* String.prototype.replace.  ends[i] is the offset after the match the    *)
(* pattern finds when tried at offset i (-1: none), repl[i] the text that  *)
(* replaces that match.  With the g flag the scan goes on after each       *)
(* match, and after an empty match one character further on; without it    *)
(* only the first match is replaced.                                       *)
(***************************************************************************)
RECURSIVE ReplaceFrom(_, _, _, _, _)
ReplaceFrom(text, i, ends, repl, global) ==
    IF i > Len(text) THEN <<>>
    ELSE IF ends[i] = -1
         THEN IF i < Len(text)
              THEN <<text[i + 1]>> \o ReplaceFrom(text, i + 1, ends, repl, global)
              ELSE <<>>
    ELSE IF ~global
         THEN repl[i] \o Slice(text, ends[i], Len(text))
    ELSE IF ends[i] = i
         THEN repl[i] \o (IF i < Len(text) THEN <<text[i + 1]>> ELSE <<>>)
                      \o ReplaceFrom(text, i + 1, ends, repl, global)
    ELSE repl[i] \o ReplaceFrom(text, ends[i], ends, repl, global)

\* text.replace(/pattern/g, replacer): M(text, i) is the pattern tried at offset i,
\* R(m) the replacement of the matched text m
ReplaceAll(text, M(_, _), R(_)) ==
    LET ends == [i \in 0..Len(text) |-> M(text, i)]
        repl == [i \in 0..Len(text) |->
                    IF ends[i] = -1 THEN <<>> ELSE R(Slice(text, i, ends[i]))]
    IN  ReplaceFrom(text, 0, ends, repl, TRUE)

\* text.replace(/pattern/, replacer), without the g flag
ReplaceFirst(text, M(_, _), R(_)) ==
    LET ends == [i \in 0..Len(text) |-> M(text, i)]
        repl == [i \in 0..Len(text) |->
                    IF ends[i] = -1 THEN <<>> ELSE R(Slice(text, i, ends[i]))]
    IN  ReplaceFrom(text, 0, ends, repl, FALSE)

\* a pattern that is one character of a class
MatchOne(text, i, class) == IF At(text, i) \in class THEN i + 1 ELSE -1

\* text.replace(/[class]/g, to)
ReplaceChars(text, class, to) ==
    ReplaceAll(text, LAMBDA t, i : MatchOne(t, i, class), LAMBDA m : to)

\* text.trim()
RECURSIVE TrimStart(_)
TrimStart(s) == IF s # <<>> /\ Head(s) \in WhiteSpace THEN TrimStart(Tail(s)) ELSE s

RECURSIVE TrimEnd(_)
TrimEnd(s) ==
    IF s # <<>> /\ s[Len(s)] \in WhiteSpace THEN TrimEnd(SubSeq(s, 1, Len(s) - 1)) ELSE s

Trim(s) == TrimEnd(TrimStart(s))

\* parseInt(s, 10) and Number(s) of a string of digits; String(n) of a natural number
RECURSIVE ParseInt(_)
ParseInt(s) ==
    IF s = <<>> THEN 0
    ELSE 10 * ParseInt(SubSeq(s, 1, Len(s) - 1))
         + ((CHOOSE i \in 1..10 : Digits10[i] = s[Len(s)]) - 1)

RECURSIVE NumToStr(_)
NumToStr(n) ==
    IF n < 10 THEN <<Digits10[n + 1]>>
    ELSE NumToStr(n \div 10) \o <<Digits10[(n % 10) + 1]>>

(***************************************************************************)
(* The patterns of normalize_text, each tried at offset i: the offset      *)
(* after the match, or -1.  A greedy quantifier is modelled by its longest *)
(* repetition wherever giving characters back cannot make the rest of the  *)
(* pattern match; where it can (an optional part before \b) the shorter    *)
(* alternatives are tried in the regex engine's order.                     *)
(***************************************************************************)
\* /  +/
MatchSpaces(text, i) ==
    LET e == SkipClass(text, i, {" "}) IN IF e - i >= 2 THEN e ELSE -1

\* /(?<=\n) +(?=\n)/
MatchBlankLine(text, i) ==
    LET e == SkipClass(text, i, {" "})
    IN  IF At(text, i - 1) = "\n" /\ e > i /\ At(text, e) = "\n" THEN e ELSE -1

\* (?= [A-Z]) at offset i
BeforeCapital(text, i) == At(text, i) = " " /\ At(text, i + 1) \in Upper

\* /\bD[Rr]\.(?= [A-Z])/
MatchDr(text, i) ==
    IF /\ WordBoundary(text, i)
       /\ At(text, i) = "D"
       /\ At(text, i + 1) \in {"R", "r"}
       /\ At(text, i + 2) = "."
       /\ BeforeCapital(text, i + 3)
    THEN i + 3 ELSE -1

\* /\b(?:Mr\.|MR\.(?= [A-Z]))/ and its like: the mixed-case form with no
\* lookahead, the upper-case form only before a space and a capital
MatchTitle(text, i, mixed, upper) ==
    IF ~WordBoundary(text, i) THEN -1
    ELSE IF LitAt(text, i, mixed) THEN i + Len(mixed)
    ELSE IF LitAt(text, i, upper) /\ BeforeCapital(text, i + Len(upper))
         THEN i + Len(upper)
    ELSE -1

\* /\betc\.(?! [A-Z])/i: under the i flag [A-Z] is any letter
MatchEtc(text, i) ==
    IF /\ WordBoundary(text, i)
       /\ LitAtI(text, i, <<"e", "t", "c", ".">>)
       /\ ~(At(text, i + 4) = " " /\ At(text, i + 5) \in Letter)
    THEN i + 4 ELSE -1

\* /\b(y)eah?\b/i
MatchYeah(text, i) ==
    IF ~(WordBoundary(text, i) /\ LitAtI(text, i, <<"y", "e", "a">>)) THEN -1
    ELSE IF LowerOf(At(text, i + 3)) = "h" /\ WordBoundary(text, i + 4) THEN i + 4
    ELSE IF WordBoundary(text, i + 3) THEN i + 3
    ELSE -1

\* a decimal pattern whose point is optional
MatchDecimal_optionalPoint(text, i) ==
    LET j == SkipClass(text, i, Digit)
        k == SkipClass(text, j + 1, Digit)
    IN  IF At(text, j) = "." /\ k > j + 1 THEN k
        ELSE IF j > i THEN j
        ELSE -1

\* /\d*\.\d+/
MatchDecimal(text, i) ==
    LET j == SkipClass(text, i, Digit)
        k == SkipClass(text, j + 1, Digit)
    IN  IF At(text, j) = "." /\ k > j + 1 THEN k ELSE -1

\* /\b\d{4}s?\b/
MatchYear(text, i) ==
    IF ~(WordBoundary(text, i) /\ \A k \in 0..3 : At(text, i + k) \in Digit) THEN -1
    ELSE IF At(text, i + 4) = "s" /\ WordBoundary(text, i + 5) THEN i + 5
    ELSE IF WordBoundary(text, i + 4) THEN i + 4
    ELSE -1

\* :[0-5]\d\b(?!:) at offset j
MatchMinutes(text, j) ==
    IF /\ At(text, j) = ":"
       /\ At(text, j + 1) \in {"0", "1", "2", "3", "4", "5"}
       /\ At(text, j + 2) \in Digit
       /\ WordBoundary(text, j + 3)
       /\ At(text, j + 3) # ":"
    THEN j + 3 ELSE -1

\* /(?<!:)\b(?:[1-9]|1[0-2]):[0-5]\d\b(?!:)/
MatchTime(text, i) ==
    IF At(text, i - 1) = ":" \/ ~WordBoundary(text, i) THEN -1
    ELSE IF At(text, i) \in (Digit \ {"0"}) /\ MatchMinutes(text, i + 1) # -1
         THEN MatchMinutes(text, i + 1)
    ELSE IF At(text, i) = "1" /\ At(text, i + 1) \in {"0", "1", "2"}
         THEN MatchMinutes(text, i + 2)
    ELSE -1

\* /\d*\.\d+|\b\d{4}s?\b|(?<!:)\b(?:[1-9]|1[0-2]):[0-5]\d\b(?!:)/
MatchNumber(text, i) ==
    IF MatchDecimal(text, i) # -1 THEN MatchDecimal(text, i)
    ELSE IF MatchYear(text, i) # -1 THEN MatchYear(text, i)
    ELSE MatchTime(text, i)

\* /(?<=\d),(?=\d)/ and /(?<=\d)-(?=\d)/
MatchBetweenDigits(text, i, c) ==
    IF At(text, i) = c /\ At(text, i - 1) \in Digit /\ At(text, i + 1) \in Digit
    THEN i + 1 ELSE -1

\* one of  hundred| thousand| (?:[bm]|tr)illion  at offset j, under the i flag
MagnitudeEnd(text, j) ==
    IF LitAtI(text, j, <<" ", "h", "u", "n", "d", "r", "e", "d">>) THEN j + 8
    ELSE IF LitAtI(text, j, <<" ", "t", "h", "o", "u", "s", "a", "n", "d">>) THEN j + 9
    ELSE IF LitAtI(text, j, <<" ", "b", "i", "l", "l", "i", "o", "n">>) THEN j + 8
    ELSE IF LitAtI(text, j, <<" ", "m", "i", "l", "l", "i", "o", "n">>) THEN j + 8
    ELSE IF LitAtI(text, j, <<" ", "t", "r", "i", "l", "l", "i", "o", "n">>) THEN j + 9
    ELSE -1

\* (?: hundred|...)*\b at offset j: the longest run of magnitude words that ends
\* at a word boundary
RECURSIVE MagnitudesEnd(_, _)
MagnitudesEnd(text, j) ==
    LET n == MagnitudeEnd(text, j)
        longer == IF n = -1 THEN -1 ELSE MagnitudesEnd(text, n)
    IN  IF longer # -1 THEN longer
        ELSE IF WordBoundary(text, j) THEN j
        ELSE -1

\* /[$£]\d+(?:\.\d+)?(?: hundred| thousand| (?:[bm]|tr)illion)*\b|[$£]\d+\.\d\d?\b/i
MatchMoney(text, i) ==
    LET d == SkipClass(text, i + 1, Digit)
        f == IF At(text, d) = "." THEN SkipClass(text, d + 1, Digit) ELSE d
        withFraction == IF f > d + 1 THEN MagnitudesEnd(text, f) ELSE -1
        first == IF withFraction # -1 THEN withFraction ELSE MagnitudesEnd(text, d)
        second == IF At(text, d) = "." /\ At(text, d + 1) \in Digit
                  THEN IF At(text, d + 2) \in Digit /\ WordBoundary(text, d + 3)
                       THEN d + 3
                       ELSE IF WordBoundary(text, d + 2) THEN d + 2 ELSE -1
                  ELSE -1
    IN  IF ~(At(text, i) \in {"$", Pound} /\ d > i + 1) THEN -1
        ELSE IF first # -1 THEN first
        ELSE second

\* /(?<=\d)S/
MatchSAfterDigit(text, i) ==
    IF At(text, i) = "S" /\ At(text, i - 1) \in Digit THEN i + 1 ELSE -1

\* [BCDFGHJ-NP-TV-Z]
UpperConsonant == Upper \ {"A", "E", "I", "O", "U"}

\* /(?<=[BCDFGHJ-NP-TV-Z])'?s\b/
MatchPossessive(text, i) ==
    IF At(text, i - 1) \notin UpperConsonant THEN -1
    ELSE IF At(text, i) = "'" /\ At(text, i + 1) = "s" /\ WordBoundary(text, i + 2)
         THEN i + 2
    ELSE IF At(text, i) = "s" /\ WordBoundary(text, i + 1) THEN i + 1
    ELSE -1

\* /(?<=X')S\b/
MatchXS(text, i) ==
    IF /\ At(text, i) = "S"
       /\ At(text, i - 1) = "'"
       /\ At(text, i - 2) = "X"
       /\ WordBoundary(text, i + 1)
    THEN i + 1 ELSE -1

\* the offset after the longest run of [A-Za-z]\. groups at offset i
RECURSIVE SkipInitials(_, _)
SkipInitials(text, i) ==
    IF At(text, i) \in Letter /\ At(text, i + 1) = "."
    THEN SkipInitials(text, i + 2)
    ELSE i

\* /(?:[A-Za-z]\.){2,} [a-z]/
MatchAcronym(text, i) ==
    LET e == SkipInitials(text, i)
    IN  IF e - i >= 4 /\ At(text, e) = " " /\ At(text, e + 1) \in Lower
        THEN e + 2 ELSE -1

\* /(?<=[A-Z])\.(?=[A-Z])/i
MatchDotBetweenLetters(text, i) ==
    IF At(text, i) = "." /\ At(text, i - 1) \in Letter /\ At(text, i + 1) \in Letter
    THEN i + 1 ELSE -1

(***************************************************************************)
(* split_num, flip_money, point_num and normalize_text.                    *)
(***************************************************************************)
Includes(s, c) == \E k \in 1..Len(s) : s[k] = c

\* s.split(c) for a one-character separator
RECURSIVE SplitOn(_, _)
SplitOn(s, c) ==
    IF ~Includes(s, c) THEN <<s>>
    ELSE LET k == CHOOSE k \in 1..Len(s) : s[k] = c /\ \A j \in 1..(k - 1) : s[j] # c
         IN  <<SubSeq(s, 1, k - 1)>> \o SplitOn(SubSeq(s, k + 1, Len(s)), c)

\* parts.join(sep)
RECURSIVE Join(_, _)
Join(parts, sep) ==
    IF parts = <<>> THEN <<>>
    ELSE IF Len(parts) = 1 THEN parts[1]
    ELSE parts[1] \o sep \o Join(Tail(parts), sep)

\* s.split(""): the characters of s, each a string
Chars(s) == [k \in 1..Len(s) |-> <<s[k]>>]

\* s.padEnd(n, c)
RECURSIVE PadEnd(_, _, _)
PadEnd(s, n, c) == IF Len(s) >= n THEN s ELSE PadEnd(Append(s, c), n, c)

\* isNaN(Number(s)) of a string without sign, exponent or radix prefix: Number
\* trims white space, reads "" as 0 and digits with at most one "." as a number
NumberIsNaN(s) ==
    LET t == Trim(s)
    IN  ~(/\ \A k \in 1..Len(t) : t[k] \in Digit \cup {"."}
          /\ Cardinality({k \in 1..Len(t) : t[k] = "."}) <= 1
          /\ t # <<".">>)

Min(a, b) == IF a < b THEN a ELSE b

\* a split_num that speaks the minutes of a time without "oh"
split_num_noOh(match) ==
    IF Includes(match, ".") \/ ~Includes(match, ":") THEN match
    ELSE LET parts == SplitOn(match, ":")
             h == ParseInt(parts[1])
             m == ParseInt(parts[2])
         IN  IF m = 0 THEN NumToStr(h) \o <<" ", "o", "'", "c", "l", "o", "c", "k">>
             ELSE NumToStr(h) \o <<" ">> \o NumToStr(m)

\* a split_num that splits every four-digit number from 1100 on
split_num_everyYear(match) ==
    IF Includes(match, ".") \/ Includes(match, ":") THEN match
    ELSE LET year == ParseInt(Slice(match, 0, Min(4, Len(match))))
             left == Slice(match, 0, Min(2, Len(match)))
             right == ParseInt(Slice(match, Min(2, Len(match)), Min(4, Len(match))))
             suffix == IF match # <<>> /\ match[Len(match)] = "s" THEN <<"s">> ELSE <<>>
         IN  IF year < 1100 THEN match
             ELSE left \o <<" ">> \o NumToStr(right) \o suffix

split_num(match) ==
    IF Includes(match, ".") THEN match
    ELSE IF Includes(match, ":")
    THEN LET parts == SplitOn(match, ":")
             h == ParseInt(parts[1])
             m == ParseInt(parts[2])
         IN  IF m = 0 THEN NumToStr(h) \o <<" ", "o", "'", "c", "l", "o", "c", "k">>
             ELSE IF m < 10 THEN NumToStr(h) \o <<" ", "o", "h", " ">> \o NumToStr(m)
             ELSE NumToStr(h) \o <<" ">> \o NumToStr(m)
    ELSE LET year == ParseInt(Slice(match, 0, Min(4, Len(match))))
             left == Slice(match, 0, Min(2, Len(match)))
             right == ParseInt(Slice(match, Min(2, Len(match)), Min(4, Len(match))))
             suffix == IF match # <<>> /\ match[Len(match)] = "s" THEN <<"s">> ELSE <<>>
         IN  IF year < 1100 \/ year % 1000 < 10 THEN match
             ELSE IF year % 1000 >= 100 /\ year % 1000 <= 999 /\ right = 0
                  THEN left \o <<" ", "h", "u", "n", "d", "r", "e", "d">> \o suffix
             ELSE IF year % 1000 >= 100 /\ year % 1000 <= 999 /\ right < 10
                  THEN left \o <<" ", "o", "h", " ">> \o NumToStr(right) \o suffix
             ELSE left \o <<" ">> \o NumToStr(right) \o suffix

\* a flip_money that never speaks a singular unit
flip_money_plural(match) ==
    LET bill == IF match[1] = "$" THEN <<"d", "o", "l", "l", "a", "r", "s">>
                ELSE <<"p", "o", "u", "n", "d", "s">>
        rest == Slice(match, 1, Len(match))
    IN  IF NumberIsNaN(rest) \/ ~Includes(match, ".") THEN rest \o <<" ">> \o bill
        ELSE LET parts == SplitOn(rest, ".")
                 d == ParseInt(PadEnd(parts[2], 2, "0"))
                 coins == IF match[1] = "$" THEN <<"c", "e", "n", "t", "s">>
                          ELSE <<"p", "e", "n", "c", "e">>
             IN  parts[1] \o <<" ">> \o bill \o <<" ", "a", "n", "d", " ">>
                   \o NumToStr(d) \o <<" ">> \o coins

flip_money(match) ==
    LET dollars == match[1] = "$"
        bill == IF dollars THEN <<"d", "o", "l", "l", "a", "r">>
                ELSE <<"p", "o", "u", "n", "d">>
        rest == Slice(match, 1, Len(match))
    IN  IF NumberIsNaN(rest) THEN rest \o <<" ">> \o bill \o <<"s">>
        ELSE IF ~Includes(match, ".")
        THEN rest \o <<" ">> \o bill \o (IF rest = <<"1">> THEN <<>> ELSE <<"s">>)
        ELSE LET parts == SplitOn(rest, ".")
                 b == parts[1]
                 c == parts[2]
                 d == ParseInt(PadEnd(c, 2, "0"))
                 coins == IF dollars
                          THEN IF d = 1 THEN <<"c", "e", "n", "t">>
                               ELSE <<"c", "e", "n", "t", "s">>
                          ELSE IF d = 1 THEN <<"p", "e", "n", "n", "y">>
                               ELSE <<"p", "e", "n", "c", "e">>
             IN  b \o <<" ">> \o bill \o (IF b = <<"1">> THEN <<>> ELSE <<"s">>)
                   \o <<" ", "a", "n", "d", " ">> \o NumToStr(d) \o <<" ">> \o coins

\* a point_num that speaks the fraction as one number
point_num_whole(match) ==
    LET parts == SplitOn(match, ".")
    IN  parts[1] \o <<" ", "p", "o", "i", "n", "t", " ">> \o parts[2]

point_num(match) ==
    LET parts == SplitOn(match, ".")
        a == parts[1]
        b == parts[2]
    IN  a \o <<" ", "p", "o", "i", "n", "t", " ">> \o Join(Chars(b), <<" ">>)

\* a step 1 that converts the parentheses before it swaps the quotes
normalize_quotes_parensFirst(text) ==
    LET t1 == ReplaceChars(text, {"("}, <<LGuil>>)
        t2 == ReplaceChars(t1, {")"}, <<RGuil>>)
        t3 == ReplaceChars(t2, {LSQuo, RSQuo}, <<"'">>)
        t4 == ReplaceChars(t3, {LGuil}, <<LDQuo>>)
        t5 == ReplaceChars(t4, {RGuil}, <<RDQuo>>)
    IN  ReplaceChars(t5, {LDQuo, RDQuo}, <<"\"">>)

\* 1. Handle quotes and brackets
normalize_quotes(text) ==
    LET t1 == ReplaceChars(text, {LSQuo, RSQuo}, <<"'">>)
        t2 == ReplaceChars(t1, {LGuil}, <<LDQuo>>)
        t3 == ReplaceChars(t2, {RGuil}, <<RDQuo>>)
        t4 == ReplaceChars(t3, {LDQuo, RDQuo}, <<"\"">>)
        t5 == ReplaceChars(t4, {"("}, <<LGuil>>)
    IN  ReplaceChars(t5, {")"}, <<RGuil>>)

\* 2. Replace uncommon punctuation marks
normalize_cjk(text) ==
    LET t1 == ReplaceChars(text, {CjkComma}, <<",", " ">>)
        t2 == ReplaceChars(t1, {CjkStop}, <<".", " ">>)
        t3 == ReplaceChars(t2, {FwExcl}, <<"!", " ">>)
        t4 == ReplaceChars(t3, {FwComma}, <<",", " ">>)
        t5 == ReplaceChars(t4, {FwColon}, <<":", " ">>)
        t6 == ReplaceChars(t5, {FwSemi}, <<";", " ">>)
    IN  ReplaceChars(t6, {FwQuest}, <<"?", " ">>)

\* 3. Whitespace normalization (the second replace has no g flag)
normalize_whitespace(text) ==
    LET t1 == ReplaceChars(text, OddSpace, <<" ">>)
        t2 == ReplaceFirst(t1, MatchSpaces, LAMBDA m : <<" ">>)
    IN  ReplaceAll(t2, MatchBlankLine, LAMBDA m : <<>>)

\* 4. Abbreviations
normalize_abbreviations(text) ==
    LET t1 == ReplaceAll(text, MatchDr, LAMBDA m : <<"D", "o", "c", "t", "o", "r">>)
        t2 == ReplaceAll(t1,
                  LAMBDA t, i : MatchTitle(t, i, <<"M", "r", ".">>, <<"M", "R", ".">>),
                  LAMBDA m : <<"M", "i", "s", "t", "e", "r">>)
        t3 == ReplaceAll(t2,
                  LAMBDA t, i : MatchTitle(t, i, <<"M", "s", ".">>, <<"M", "S", ".">>),
                  LAMBDA m : <<"M", "i", "s", "s">>)
        t4 == ReplaceAll(t3,
                  LAMBDA t, i : MatchTitle(t, i, <<"M", "r", "s", ".">>, <<"M", "R", "S", ".">>),
                  LAMBDA m : <<"M", "r", "s">>)
    IN  ReplaceAll(t4, MatchEtc, LAMBDA m : <<"e", "t", "c">>)

\* 5. Normalize casual words: "$1e'a"
normalize_casual(text) ==
    ReplaceAll(text, MatchYeah, LAMBDA m : <<m[1], "e", "'", "a">>)

\* 5. Handle numbers and currencies
normalize_numbers(text) ==
    LET t1 == ReplaceAll(text, MatchNumber, split_num)
        t2 == ReplaceAll(t1, LAMBDA t, i : MatchBetweenDigits(t, i, ","), LAMBDA m : <<>>)
        t3 == ReplaceAll(t2, MatchMoney, flip_money)
        t4 == ReplaceAll(t3, MatchDecimal, point_num)
        t5 == ReplaceAll(t4, LAMBDA t, i : MatchBetweenDigits(t, i, "-"),
                         LAMBDA m : <<" ", "t", "o", " ">>)
    IN  ReplaceAll(t5, MatchSAfterDigit, LAMBDA m : <<" ", "S">>)

\* 6. Handle possessives
normalize_possessives(text) ==
    LET t1 == ReplaceAll(text, MatchPossessive, LAMBDA m : <<"'", "S">>)
    IN  ReplaceAll(t1, MatchXS, LAMBDA m : <<"s">>)

\* 7. Handle hyphenated words/letters
normalize_hyphens(text) ==
    LET t1 == ReplaceAll(text, MatchAcronym,
                         LAMBDA m : ReplaceChars(m, {"."}, <<"-">>))
    IN  ReplaceAll(t1, MatchDotBetweenLetters, LAMBDA m : <<"-">>)

\* the whole chain, ending with 8. trim()
normalize_text(text) ==
    Trim(normalize_hyphens(normalize_possessives(normalize_numbers(normalize_casual(
        normalize_abbreviations(normalize_whitespace(normalize_cjk(
            normalize_quotes(text)))))))))

(***************************************************************************)
(* PUNCTUATION and PUNCTUATION_PATTERN.  escapeRegExp makes every          *)
(* character of PUNCTUATION a literal of the character class, so the class *)
(* is the set of its characters.  The pattern is one or more repetitions  *)
(* of the group: white space, one or more class characters, white space;  *)
(* it has the g flag.  The regex object's only mutable field is lastIndex. *)
(***************************************************************************)
PUNCTUATION ==
    {";", ":", ",", ".", "!", "?", InvExcl, InvQuest, EmDash, Ellipsis, "\"",
     LGuil, RGuil, LDQuo, RDQuo, "(", ")", "{", "}", "[", "]"}

PUNCTUATION_PATTERN == [class |-> PUNCTUATION, lastIndex |-> patternLastIndex]

\* one repetition of the group at offset i: the offset after it,
\* or -1 when there is no character of the class after the white space
GroupEnd(text, i, class) ==
    LET j == SkipClass(text, i, WhiteSpace)
        k == SkipClass(text, j, class)
    IN  IF k = j THEN -1 ELSE SkipClass(text, k, WhiteSpace)

\* a pattern whose group is not repeated
MatchEnd_oneGroup(text, i, class) == GroupEnd(text, i, class)

RECURSIVE GroupsEnd(_, _, _)
GroupsEnd(text, e, class) ==
    LET n == GroupEnd(text, e, class)
    IN  IF n = -1 THEN e ELSE GroupsEnd(text, n, class)

\* the whole pattern tried at offset i: the offset after the match, or -1
MatchEnd(text, i, class) ==
    LET e == GroupEnd(text, i, class)
    IN  IF e = -1 THEN -1 ELSE GroupsEnd(text, e, class)

\* the matches of a global regex from offset pos on, leftmost first; an empty
\* match advances the scan by one character
RECURSIVE matchAllFrom(_, _, _)
matchAllFrom(text, pos, class) ==
    IF pos > Len(text) THEN <<>>
    ELSE LET e == MatchEnd(text, pos, class)
         IN  IF e = -1 THEN matchAllFrom(text, pos + 1, class)
             ELSE <<[index |-> pos, full |-> Slice(text, pos, e)]>>
                  \o matchAllFrom(text, IF e = pos THEN pos + 1 ELSE e, class)

\* text.matchAll(regex): the scan runs on a clone that starts at regex.lastIndex
matchAll(text, regex) == matchAllFrom(text, regex.lastIndex, regex.class)

\* the body of the for loop of split, over the remaining matches
RECURSIVE splitLoop(_, _, _, _)
splitLoop(text, matches, prev, result) ==
    IF matches = <<>> THEN [prev |-> prev, result |-> result]
    ELSE LET m == Head(matches)
             fullMatch == m.full
             r1 == IF prev < m.index
                   THEN Append(result, [match |-> FALSE, text |-> Slice(text, prev, m.index)])
                   ELSE result
             r2 == IF Len(fullMatch) > 0
                   THEN Append(r1, [match |-> TRUE, text |-> fullMatch])
                   ELSE r1
         IN  splitLoop(text, Tail(matches), m.index + Len(fullMatch), r2)

\* a split that forgets the text after the last match
split_dropTail(text, regex) ==
    splitLoop(text, matchAll(text, regex), 0, <<>>).result

\* a split that pushes the text after the last match even when it is empty
split_alwaysTail(text, regex) ==
    LET l == splitLoop(text, matchAll(text, regex), 0, <<>>)
    IN  Append(l.result, [match |-> FALSE, text |-> Slice(text, l.prev, Len(text))])

split(text, regex) ==
    LET l == splitLoop(text, matchAll(text, regex), 0, <<>>)
    IN  IF l.prev < Len(text)
        THEN Append(l.result, [match |-> FALSE, text |-> Slice(text, l.prev, Len(text))])
        ELSE l.result

\* the texts of an array of segments
RECURSIVE SegTexts(_)
SegTexts(sections) ==
    IF sections = <<>> THEN <<>>
    ELSE <<Head(sections).text>> \o SegTexts(Tail(sections))

(***************************************************************************)
(* Step 4 and 5 of phonemize: the post-processing of the phoneme string.   *)
(***************************************************************************)
MatchLit(text, i, lit) == IF LitAt(text, i, lit) THEN i + Len(lit) ELSE -1

\* text.replace(/literal/g, to)
ReplaceLit(text, lit, to) ==
    ReplaceAll(text, LAMBDA t, i : MatchLit(t, i, lit), LAMBDA m : to)

Hundred == <<"h", Stress, Wedge, "n", "d", TurnedR, SmallI, "d">>
Nine == <<"n", Stress, "a", SmallI, "n">>

\* /(?<=[a-zɹː])(?=hˈʌndɹɪd)/: an empty match
MatchBeforeHundred(text, i) ==
    IF At(text, i - 1) \in Lower \cup {TurnedR, LenMark} /\ LitAt(text, i, Hundred)
    THEN i ELSE -1

\* /[;:,.!?¡¿—…"«»“” ]|$/ looked ahead at offset i
BeforePunctuationOrEnd(text, i) ==
    \/ i = Len(text)
    \/ At(text, i) \in {";", ":", ",", ".", "!", "?", InvExcl, InvQuest, EmDash,
                        Ellipsis, "\"", LGuil, RGuil, LDQuo, RDQuo, " "}

\* / z(?=[;:,.!?¡¿—…"«»“” ]|$)/
MatchSpaceZ(text, i) ==
    IF LitAt(text, i, <<" ", "z">>) /\ BeforePunctuationOrEnd(text, i + 2)
    THEN i + 2 ELSE -1

\* /(?<=nˈaɪn)ti(?!ː)/
MatchNinety(text, i) ==
    IF /\ LitAt(text, i - 5, Nine)
       /\ LitAt(text, i, <<"t", "i">>)
       /\ At(text, i + 2) # LenMark
    THEN i + 2 ELSE -1

\* a step 4 that maps r before the palatalization mark and turns that mark into r
postprocess_common_markToR(ps) ==
    LET p1 == ReplaceChars(ps, {"r"}, <<TurnedR>>)
        p2 == ReplaceChars(p1, {PalatalJ}, <<"r">>)
        p3 == ReplaceChars(p2, {"x"}, <<"k">>)
        p4 == ReplaceChars(p3, {BeltedL}, <<"l">>)
        p5 == ReplaceAll(p4, MatchBeforeHundred, LAMBDA m : <<" ">>)
    IN  ReplaceAll(p5, MatchSpaceZ, LAMBDA m : <<"z">>)

\* 4. Post-process phonemes
postprocess_common(ps) ==
    LET p1 == ReplaceLit(ps,
                  <<"k", Schwa, "k", Stress, "o", LenMark, TurnedR, "o", Upsilon>>,
                  <<"k", Stress, "o", Upsilon, "k", Schwa, TurnedR, "o", Upsilon>>)
        p2 == ReplaceLit(p1,
                  <<"k", Schwa, "k", Stress, OpenO, LenMark, TurnedR, Schwa, Upsilon>>,
                  <<"k", Stress, Schwa, Upsilon, "k", Schwa, TurnedR, Schwa, Upsilon>>)
        p3 == ReplaceChars(p2, {PalatalJ}, <<"j">>)
        p4 == ReplaceChars(p3, {"r"}, <<TurnedR>>)
        p5 == ReplaceChars(p4, {"x"}, <<"k">>)
        p6 == ReplaceChars(p5, {BeltedL}, <<"l">>)
        p7 == ReplaceAll(p6, MatchBeforeHundred, LAMBDA m : <<" ">>)
    IN  ReplaceAll(p7, MatchSpaceZ, LAMBDA m : <<"z">>)

\* 5. Additional post-processing for American English
postprocess_american(processed) ==
    ReplaceAll(processed, MatchNinety, LAMBDA m : <<"d", "i">>)

\* a post-processing that applies the American rule to every language
postprocess_anyLanguage(ps, language) ==
    Trim(postprocess_american(postprocess_common(ps)))

\* steps 4 and 5 and the final trim: what phonemize returns for the joined string ps
postprocess(ps, language) ==
    LET processed == postprocess_common(ps)
    IN  Trim(IF language = "a" THEN postprocess_american(processed) ELSE processed)

(***************************************************************************)
(* phonemize(text, language, norm), an async function.  Its synchronous    *)
(* part normalizes, splits and maps every section to a promise: the map    *)
(* callback runs to its first await, so every backend call is made, in     *)
(* section order, before phonemize awaits Promise.all.  The backend calls  *)
(* then settle in any order; Promise.all fulfils when every promise has,   *)
(* and rejects at the first rejection; phonemize resumes after that.       *)
(***************************************************************************)
Calls == {1, 2}
Languages == {"a", "b", "j", "z"}
PhonAlphabet == {"a", "b", ".", " "}

\* what espeakng may resolve to: an array of phoneme strings
BackendOutputs ==
    { <<>>,
      <<Nine \o <<"t", "i">>>>,
      <<<<"z">>>>,
      <<<<"r">>, <<"x", "z">>>>,
      <<<<PalatalJ, BeltedL>>>> }

NoArgs == [text |-> <<>>, language |-> "a", norm |-> TRUE]
NoError == [call |-> 0, index |-> 0]
Unsettled == [state |-> "pending", reason |-> NoError]

\* the error a failing backend call of call c for section i rejects with
EspeakError(c, i) == [call |-> c, index |-> i]

\* const lang = language === "a" ? "en-us" : "en"
dialectOf_americanDefault(language) == IF language = "b" THEN "en" ELSE "en-us"

dialectOf(language) == IF language = "a" THEN "en-us" ELSE "en"

\* the map callback: match ? text : (await espeakng(text, lang)).join(" ")
callsBackend_always(section) == TRUE

callsBackend(section) == ~section.match

\* a map callback that passes a punctuation section without its white space
sectionPromise_trimmed(section) ==
    IF callsBackend(section)
    THEN [state |-> "pending", value |-> <<>>, reason |-> NoError]
    ELSE [state |-> "fulfilled", value |-> Trim(section.text), reason |-> NoError]

sectionPromise(section) ==
    IF callsBackend(section)
    THEN [state |-> "pending", value |-> <<>>, reason |-> NoError]
    ELSE [state |-> "fulfilled", value |-> section.text, reason |-> NoError]

\* the backend invocations the map makes, in section order
RECURSIVE backendCalls(_, _, _)
backendCalls(sections, i, lang) ==
    IF i > Len(sections) THEN <<>>
    ELSE (IF callsBackend(sections[i])
          THEN <<[index |-> i, text |-> sections[i].text, lang |-> lang]>>
          ELSE <<>>) \o backendCalls(sections, i + 1, lang)

\* Promise.all after promise `settled` settled (0: at its creation)
PromiseAll_allSettled(prev, slots, settled) ==
    IF prev.state # "pending" THEN prev
    ELSE IF \A j \in 1..Len(slots) : slots[j].state # "pending"
         THEN [state |-> "fulfilled", reason |-> NoError]
    ELSE prev

PromiseAll_race(prev, slots, settled) ==
    IF prev.state # "pending" THEN prev
    ELSE IF settled # 0 /\ slots[settled].state = "rejected"
         THEN [state |-> "rejected", reason |-> slots[settled].reason]
    ELSE IF settled # 0 \/ \A j \in 1..Len(slots) : slots[j].state = "fulfilled"
         THEN [state |-> "fulfilled", reason |-> NoError]
    ELSE prev

PromiseAll(prev, slots, settled) ==
    IF prev.state # "pending" THEN prev
    ELSE IF settled # 0 /\ slots[settled].state = "rejected"
         THEN [state |-> "rejected", reason |-> slots[settled].reason]
    ELSE IF \A j \in 1..Len(slots) : slots[j].state = "fulfilled"
         THEN [state |-> "fulfilled", reason |-> NoError]
    ELSE prev

\* the order in which the promises were fulfilled: the punctuation sections at
\* once, in section order, then the backend calls as they resolved
RECURSIVE FulfilOrder(_, _, _)
FulfilOrder(sections, i, settled) ==
    IF i <= Len(sections)
    THEN (IF sections[i].match THEN <<i>> ELSE <<>>) \o FulfilOrder(sections, i + 1, settled)
    ELSE IF settled = <<>> THEN <<>>
    ELSE (IF Head(settled).ok THEN <<Head(settled).index>> ELSE <<>>)
         \o FulfilOrder(sections, i, Tail(settled))

\* a reassembly that appends each result as it arrives
joinSections_completionOrder(sections, slots, settled) ==
    LET order == FulfilOrder(sections, 1, settled)
    IN  Concat([k \in 1..Len(order) |-> slots[order[k]].value])

\* (await Promise.all(...)).join(""): the values by section index
joinSections(sections, slots, settled) ==
    Concat([i \in 1..Len(slots) |-> slots[i].value])

\* RegExp.prototype[Symbol.matchAll] scans a clone: the regex keeps its lastIndex
lastIndexAfterSplit_shared(text, regex) ==
    LET ms == matchAll(text, regex)
    IN  IF ms = <<>> THEN 0 ELSE ms[1].index + Len(ms[1].full)

lastIndexAfterSplit(text, regex) == regex.lastIndex

\* the synchronous part of phonemize, up to the await
phonemize(c) ==
    /\ phPc[c] = "idle"
    /\ LET a == phArgs[c]
           text == IF a.norm THEN normalize_text(a.text) ELSE a.text
           sections == split(text, PUNCTUATION_PATTERN)
           lang == dialectOf(a.language)
           slots == [i \in 1..Len(sections) |-> sectionPromise(sections[i])]
       IN  /\ phSections' = [phSections EXCEPT ![c] = sections]
           /\ phSlots' = [phSlots EXCEPT ![c] = slots]
           /\ phInvoked' = [phInvoked EXCEPT ![c] = backendCalls(sections, 1, lang)]
           /\ phAll' = [phAll EXCEPT ![c] = PromiseAll(Unsettled, slots, 0)]
           /\ patternLastIndex' = lastIndexAfterSplit(text, PUNCTUATION_PATTERN)
    /\ phPc' = [phPc EXCEPT ![c] = "awaiting"]
    /\ UNCHANGED <<phArgs, phPs, phResult, phError, phSettled, g2p, splitVars, voiceVars, siVars, nzVars, genVars, lsVars>>

\* the backend call made for section i of call c, if one is outstanding
Outstanding(c, i) ==
    /\ i \in 1..Len(phSlots[c])
    /\ phSlots[c][i].state = "pending"
    /\ \E k \in 1..Len(phInvoked[c]) : phInvoked[c][k].index = i

InvocationOf(c, i) ==
    phInvoked[c][CHOOSE k \in 1..Len(phInvoked[c]) : phInvoked[c][k].index = i]

\* a backend call resolves: the map callback joins the array with " " and its
\* promise is fulfilled.  The backend is deterministic: one output per (text, dialect)
espeak_resolve(c, i, out) ==
    /\ Outstanding(c, i)
    /\ LET inv == InvocationOf(c, i)
           entry == [text |-> inv.text, lang |-> inv.lang, out |-> out]
           slots == [phSlots[c] EXCEPT
                        ![i] = [state |-> "fulfilled", value |-> Join(out, <<" ">>),
                                reason |-> NoError]]
       IN  /\ \A e \in g2p : e.text = inv.text /\ e.lang = inv.lang => e.out = out
           /\ g2p' = g2p \cup {entry}
           /\ phSlots' = [phSlots EXCEPT ![c] = slots]
           /\ phAll' = [phAll EXCEPT ![c] = PromiseAll(phAll[c], slots, i)]
    /\ phSettled' = [phSettled EXCEPT ![c] = Append(@, [index |-> i, ok |-> TRUE])]
    /\ UNCHANGED <<phArgs, phPc, phSections, phPs, phResult, phError, phInvoked,
                   patternLastIndex, splitVars, voiceVars, siVars, nzVars, genVars, lsVars>>

\* a backend call fails: the map callback's promise is rejected with the error
espeak_reject(c, i) ==
    /\ Outstanding(c, i)
    /\ LET slots == [phSlots[c] EXCEPT
                        ![i] = [state |-> "rejected", value |-> <<>>,
                                reason |-> EspeakError(c, i)]]
       IN  /\ phSlots' = [phSlots EXCEPT ![c] = slots]
           /\ phAll' = [phAll EXCEPT ![c] = PromiseAll(phAll[c], slots, i)]
    /\ phSettled' = [phSettled EXCEPT ![c] = Append(@, [index |-> i, ok |-> FALSE])]
    /\ UNCHANGED <<phArgs, phPc, phSections, phPs, phResult, phError, phInvoked, g2p,
                   patternLastIndex, splitVars, voiceVars, siVars, nzVars, genVars, lsVars>>

\* Promise.all fulfilled: phonemize joins, post-processes, trims and returns
phonemize_resume(c) ==
    /\ phPc[c] = "awaiting"
    /\ phAll[c].state = "fulfilled"
    /\ LET ps == joinSections(phSections[c], phSlots[c], phSettled[c])
       IN  /\ phPs' = [phPs EXCEPT ![c] = ps]
           /\ phResult' = [phResult EXCEPT ![c] = postprocess(ps, phArgs[c].language)]
    /\ phPc' = [phPc EXCEPT ![c] = "returned"]
    /\ UNCHANGED <<phArgs, phSections, phSlots, phAll, phError, phInvoked, phSettled, g2p,
                   patternLastIndex, splitVars, voiceVars, siVars, nzVars, genVars, lsVars>>

\* Promise.all rejected: the await throws and phonemize rejects with the same error
phonemize_throw(c) ==
    /\ phPc[c] = "awaiting"
    /\ phAll[c].state = "rejected"
    /\ phError' = [phError EXCEPT ![c] = phAll[c].reason]
    /\ phPc' = [phPc EXCEPT ![c] = "thrown"]
    /\ UNCHANGED <<phArgs, phSections, phSlots, phAll, phPs, phResult, phInvoked,
                   phSettled, g2p, patternLastIndex, splitVars, voiceVars, siVars, nzVars, genVars, lsVars>>

(***************************************************************************)
(* KokoroPipelineSingleton.getVoiceData(voice), an async function, and the *)
(* static voiceCache it fills.  A caller is an invocation of generate; the *)
(* callers run on one event loop, so each action below is one turn of it:  *)
(* the synchronous part of the call up to its first await, then the        *)
(* resumption after fetch settled and after response.arrayBuffer settled.  *)
(***************************************************************************)
VoiceCallers == {1, 2}
VoiceKeys == {"am_michael", "bf_emma"}

NoData == [kind |-> "none", voice |-> "", fetch |-> 0]

\* new Float32Array(buffer): a new object for every fetch
VoiceData(voice, n) == [kind |-> "data", voice |-> voice, fetch |-> n]

\* the errors getVoiceData rethrows: a rejected fetch, a non-ok response, a body
\* that cannot be read
VoiceError(what, voice, n) == [kind |-> what, voice |-> voice, fetch |-> n]

\* the calls of getVoiceData(voice) that have not completed
InFlight(voice) == {k \in VoiceCallers : gvPc[k] \in {"fetching", "reading"} /\ gvVoice[k] = voice}

\* getVoiceData(voice) up to its first await: a cache hit returns the entry, a
\* miss issues fetch(url)
getVoiceData(k, voice) ==
    /\ gvPc[k] \in {"idle", "returned", "thrown"}
    /\ gvCalls < MaxVoiceCalls
    /\ gvCalls' = gvCalls + 1
    /\ gvVoice' = [gvVoice EXCEPT ![k] = voice]
    /\ IF voiceCache[voice] # NoData
       THEN /\ gvPc' = [gvPc EXCEPT ![k] = "returned"]
            /\ gvOut' = [gvOut EXCEPT ![k] = voiceCache[voice]]
            /\ gvFetch' = [gvFetch EXCEPT ![k] = 0]
            /\ UNCHANGED fetchLog
       ELSE /\ gvPc' = [gvPc EXCEPT ![k] = "fetching"]
            /\ gvOut' = [gvOut EXCEPT ![k] = NoData]
            /\ gvFetch' = [gvFetch EXCEPT ![k] = Len(fetchLog) + 1]
            /\ fetchLog' = Append(fetchLog, voice)
    /\ UNCHANGED <<voiceCache, splitVars, patternLastIndex, phVars, siVars, nzVars, lsVars>>

\* a getVoiceData that caches an empty array when the response is not ok
fetch_resolve_cacheFailure(k, ok) ==
    /\ gvPc[k] = "fetching"
    /\ IF ok
       THEN /\ gvPc' = [gvPc EXCEPT ![k] = "reading"]
            /\ UNCHANGED <<gvOut, voiceCache>>
       ELSE /\ gvPc' = [gvPc EXCEPT ![k] = "thrown"]
            /\ gvOut' = [gvOut EXCEPT ![k] = VoiceError("status", gvVoice[k], gvFetch[k])]
            /\ voiceCache' = [voiceCache EXCEPT ![gvVoice[k]] = VoiceData(gvVoice[k], 0)]
    /\ UNCHANGED <<gvVoice, gvFetch, gvCalls, fetchLog,
                   splitVars, patternLastIndex, phVars, siVars, nzVars, genVars, lsVars>>

\* fetch resolved with a response: a non-ok one makes the call throw, an ok one
\* takes it to the await of response.arrayBuffer()
fetch_resolve(k, ok) ==
    /\ gvPc[k] = "fetching"
    /\ IF ok
       THEN /\ gvPc' = [gvPc EXCEPT ![k] = "reading"]
            /\ UNCHANGED gvOut
       ELSE /\ gvPc' = [gvPc EXCEPT ![k] = "thrown"]
            /\ gvOut' = [gvOut EXCEPT ![k] = VoiceError("status", gvVoice[k], gvFetch[k])]
    /\ UNCHANGED <<voiceCache, gvVoice, gvFetch, gvCalls, fetchLog,
                   splitVars, patternLastIndex, phVars, siVars, nzVars, genVars, lsVars>>

\* fetch rejected (a network error): the catch block rethrows
fetch_reject(k) ==
    /\ gvPc[k] = "fetching"
    /\ gvPc' = [gvPc EXCEPT ![k] = "thrown"]
    /\ gvOut' = [gvOut EXCEPT ![k] = VoiceError("network", gvVoice[k], gvFetch[k])]
    /\ UNCHANGED <<voiceCache, gvVoice, gvFetch, gvCalls, fetchLog,
                   splitVars, patternLastIndex, phVars, siVars, nzVars, genVars, lsVars>>

\* the body arrived: the data is cached and returned
arrayBuffer_resolve(k) ==
    /\ gvPc[k] = "reading"
    /\ LET voiceData == VoiceData(gvVoice[k], gvFetch[k])
       IN  /\ voiceCache' = [voiceCache EXCEPT ![gvVoice[k]] = voiceData]
           /\ gvOut' = [gvOut EXCEPT ![k] = voiceData]
    /\ gvPc' = [gvPc EXCEPT ![k] = "returned"]
    /\ UNCHANGED <<gvVoice, gvFetch, gvCalls, fetchLog, splitVars, patternLastIndex, phVars, siVars, nzVars, genVars, lsVars>>

\* the body could not be read: the catch block rethrows
arrayBuffer_reject(k) ==
    /\ gvPc[k] = "reading"
    /\ gvPc' = [gvPc EXCEPT ![k] = "thrown"]
    /\ gvOut' = [gvOut EXCEPT ![k] = VoiceError("body", gvVoice[k], gvFetch[k])]
    /\ UNCHANGED <<voiceCache, gvVoice, gvFetch, gvCalls, fetchLog,
                   splitVars, patternLastIndex, phVars, siVars, nzVars, genVars, lsVars>>

\* static voiceCache = new Map(), and no call made yet
VoiceIdle ==
    /\ voiceCache = [v \in VoiceKeys |-> NoData]
    /\ gvPc = [k \in VoiceCallers |-> "idle"]
    /\ gvVoice = [k \in VoiceCallers |-> ""]
    /\ gvFetch = [k \in VoiceCallers |-> 0]
    /\ gvOut = [k \in VoiceCallers |-> NoData]
    /\ gvCalls = 0
    /\ fetchLog = <<>>

(***************************************************************************)
(* The model-pipeline singletons.  PipelineSingleton.getInstance stores    *)
(* the promise pipeline() returns in the same turn it finds instance       *)
(* nullish; TTSPipelineSingleton and KokoroPipelineSingleton test          *)
(* instance === null, await their loads, and assign instance afterwards.   *)
(* A load is named by its place in siStarted.                              *)
(***************************************************************************)
Classes == {"PipelineSingleton", "TTSPipelineSingleton", "KokoroPipelineSingleton"}
InstanceCallers == {1, 2}

NoInstance == [tokenizer |-> 0, model |-> 0]

\* the object the load `model` (and, for Kokoro, the static tokenizer) makes up
Instance(tokenizer, model) == [tokenizer |-> tokenizer, model |-> model]

\* a getInstance call of class cls can be made by caller k
CanCall(cls, k) ==
    /\ siPc[cls][k] \in {"idle", "returned", "thrown"}
    /\ siCalls < MaxInstanceCalls

SetPc(cls, k, pc) == siPc' = [siPc EXCEPT ![cls][k] = pc]
SetOut(cls, k, out) == siOut' = [siOut EXCEPT ![cls][k] = out]
SetMine(cls, k, n) == siMine' = [siMine EXCEPT ![cls][k] = n]
StartLoad(cls, what) == siStarted' = [siStarted EXCEPT ![cls] = Append(@, what)]

\* a getInstance that starts a new load once the stored promise has rejected
PipelineSingleton_getInstance_retry(k) ==
    LET cls == "PipelineSingleton"
    IN  /\ CanCall(cls, k)
        /\ siCalls' = siCalls + 1
        /\ IF siInstance[cls] = NoInstance \/ siPromise = "rejected"
           THEN /\ StartLoad(cls, "pipeline")
                /\ siInstance' = [siInstance EXCEPT
                                     ![cls] = Instance(0, Len(siStarted[cls]) + 1)]
                /\ siPromise' = "pending"
           ELSE UNCHANGED <<siStarted, siInstance, siPromise>>
        /\ SetMine(cls, k, siInstance'[cls].model)
        /\ SetPc(cls, k, "loading")
        /\ SetOut(cls, k, NoInstance)
        /\ UNCHANGED <<kkTokenizer, kkModel, splitVars, patternLastIndex, phVars, voiceVars,
                       nzVars, genVars>>

\* this.instance ??= pipeline(...); return this.instance: the call settles as
\* the stored promise does
PipelineSingleton_getInstance(k) ==
    LET cls == "PipelineSingleton"
    IN  /\ CanCall(cls, k)
        /\ siCalls' = siCalls + 1
        /\ IF siInstance[cls] = NoInstance
           THEN /\ StartLoad(cls, "pipeline")
                /\ siInstance' = [siInstance EXCEPT
                                     ![cls] = Instance(0, Len(siStarted[cls]) + 1)]
                /\ siPromise' = "pending"
           ELSE UNCHANGED <<siStarted, siInstance, siPromise>>
        /\ SetMine(cls, k, siInstance'[cls].model)
        /\ SetPc(cls, k, "loading")
        /\ SetOut(cls, k, NoInstance)
        /\ UNCHANGED <<kkTokenizer, kkModel, splitVars, patternLastIndex, phVars, voiceVars,
                       nzVars, genVars>>

\* the promise pipeline() returned to PipelineSingleton settles
pipeline_settle(ok) ==
    /\ siPromise = "pending"
    /\ siPromise' = IF ok THEN "fulfilled" ELSE "rejected"
    /\ UNCHANGED <<siInstance, siStarted, siPc, siMine, siOut, kkTokenizer, kkModel, siCalls,
                   splitVars, patternLastIndex, phVars, voiceVars, nzVars, genVars, lsVars>>

\* a PipelineSingleton.getInstance call settles with the stored promise
PipelineSingleton_resume(k) ==
    LET cls == "PipelineSingleton"
    IN  /\ siPc[cls][k] = "loading"
        /\ siPromise \in {"fulfilled", "rejected"}
        /\ IF siPromise = "fulfilled"
           THEN SetPc(cls, k, "returned") /\ SetOut(cls, k, Instance(0, siMine[cls][k]))
           ELSE SetPc(cls, k, "thrown") /\ UNCHANGED siOut
        /\ UNCHANGED <<siInstance, siPromise, siStarted, siMine, kkTokenizer, kkModel, siCalls,
                       splitVars, patternLastIndex, phVars, voiceVars, nzVars, genVars, lsVars>>

\* TTSPipelineSingleton.getInstance up to its await: instance === null starts
\* pipeline(), anything else is returned
TTSPipelineSingleton_getInstance(k) ==
    LET cls == "TTSPipelineSingleton"
    IN  /\ CanCall(cls, k)
        /\ siCalls' = siCalls + 1
        /\ IF siInstance[cls] = NoInstance
           THEN /\ StartLoad(cls, "pipeline")
                /\ SetMine(cls, k, Len(siStarted[cls]) + 1)
                /\ SetPc(cls, k, "loading")
                /\ SetOut(cls, k, NoInstance)
           ELSE /\ SetPc(cls, k, "returned")
                /\ SetOut(cls, k, siInstance[cls])
                /\ UNCHANGED <<siStarted, siMine>>
        /\ UNCHANGED <<siInstance, siPromise, kkTokenizer, kkModel,
                       splitVars, patternLastIndex, phVars, voiceVars, nzVars, genVars, lsVars>>

\* the pipeline() a TTSPipelineSingleton.getInstance call awaits settles: the
\* call assigns instance and returns it, or rethrows
TTSPipelineSingleton_resume(k, ok) ==
    LET cls == "TTSPipelineSingleton"
    IN  /\ siPc[cls][k] = "loading"
        /\ IF ok
           THEN /\ siInstance' = [siInstance EXCEPT ![cls] = Instance(0, siMine[cls][k])]
                /\ SetPc(cls, k, "returned")
                /\ SetOut(cls, k, siInstance'[cls])
           ELSE /\ SetPc(cls, k, "thrown")
                /\ UNCHANGED <<siInstance, siOut>>
        /\ UNCHANGED <<siPromise, siStarted, siMine, kkTokenizer, kkModel, siCalls,
                       splitVars, patternLastIndex, phVars, voiceVars, nzVars, genVars, lsVars>>

\* KokoroPipelineSingleton.getInstance up to its first await, the import
KokoroPipelineSingleton_getInstance(k) ==
    LET cls == "KokoroPipelineSingleton"
    IN  /\ CanCall(cls, k)
        /\ siCalls' = siCalls + 1
        /\ IF siInstance[cls] = NoInstance
           THEN /\ SetPc(cls, k, "importing")
                /\ SetOut(cls, k, NoInstance)
           ELSE /\ SetPc(cls, k, "returned")
                /\ SetOut(cls, k, siInstance[cls])
        /\ UNCHANGED <<siInstance, siPromise, siStarted, siMine, kkTokenizer, kkModel,
                       splitVars, patternLastIndex, phVars, voiceVars, nzVars, genVars, lsVars>>

\* the import settled: AutoTokenizer.from_pretrained is started, or the call rethrows
Kokoro_imported(k, ok) ==
    LET cls == "KokoroPipelineSingleton"
    IN  /\ siPc[cls][k] = "importing"
        /\ IF ok
           THEN /\ StartLoad(cls, "tokenizer")
                /\ SetMine(cls, k, Len(siStarted[cls]) + 1)
                /\ SetPc(cls, k, "tokenizer")
           ELSE /\ SetPc(cls, k, "thrown")
                /\ UNCHANGED <<siStarted, siMine>>
        /\ UNCHANGED <<siInstance, siPromise, siOut, kkTokenizer, kkModel, siCalls,
                       splitVars, patternLastIndex, phVars, voiceVars, nzVars, genVars, lsVars>>

\* the tokenizer load settled: this.tokenizer is assigned and
\* PreTrainedModel.from_pretrained is started, or the call rethrows
Kokoro_tokenizerLoaded(k, ok) ==
    LET cls == "KokoroPipelineSingleton"
    IN  /\ siPc[cls][k] = "tokenizer"
        /\ IF ok
           THEN /\ kkTokenizer' = siMine[cls][k]
                /\ StartLoad(cls, "model")
                /\ SetMine(cls, k, Len(siStarted[cls]) + 1)
                /\ SetPc(cls, k, "model")
           ELSE /\ SetPc(cls, k, "thrown")
                /\ UNCHANGED <<kkTokenizer, siStarted, siMine>>
        /\ UNCHANGED <<siInstance, siPromise, siOut, kkModel, siCalls,
                       splitVars, patternLastIndex, phVars, voiceVars, nzVars, genVars, lsVars>>

\* the model load settled: this.model and this.instance are assigned, the
\* instance holding the static tokenizer and model as they are now; or the call rethrows
Kokoro_modelLoaded(k, ok) ==
    LET cls == "KokoroPipelineSingleton"
    IN  /\ siPc[cls][k] = "model"
        /\ IF ok
           THEN /\ kkModel' = siMine[cls][k]
                /\ siInstance' = [siInstance EXCEPT
                                     ![cls] = Instance(kkTokenizer, siMine[cls][k])]
                /\ SetPc(cls, k, "returned")
                /\ SetOut(cls, k, siInstance'[cls])
           ELSE /\ SetPc(cls, k, "thrown")
                /\ UNCHANGED <<kkModel, siInstance, siOut>>
        /\ UNCHANGED <<siPromise, siStarted, siMine, kkTokenizer, siCalls,
                       splitVars, patternLastIndex, phVars, voiceVars, nzVars, genVars, lsVars>>

\* static instance = null, and no call made yet
SiIdle ==
    /\ siInstance = [cls \in Classes |-> NoInstance]
    /\ siPromise = "none"
    /\ siStarted = [cls \in Classes |-> <<>>]
    /\ siPc = [cls \in Classes |-> [k \in InstanceCallers |-> "idle"]]
    /\ siMine = [cls \in Classes |-> [k \in InstanceCallers |-> 0]]
    /\ siOut = [cls \in Classes |-> [k \in InstanceCallers |-> NoInstance]]
    /\ kkTokenizer = 0
    /\ kkModel = 0
    /\ siCalls = 0

(***************************************************************************)
(* normalize_text as a machine: one call on an input, then one call on its *)
(* own output.  The calls of the three replacer functions are recorded:    *)
(* split_num on the matches of the numbers pattern, flip_money on those of *)
(* the currency pattern, point_num on those of the decimal pattern, each   *)
(* pattern scanning the text the replacements before it produced.          *)
(***************************************************************************)
\* the matches a replace with the g flag hands to its replacer function
RECURSIVE MatchesFrom(_, _, _)
MatchesFrom(text, i, ends) ==
    IF i > Len(text) THEN <<>>
    ELSE IF ends[i] = -1 THEN MatchesFrom(text, i + 1, ends)
    ELSE <<Slice(text, i, ends[i])>>
         \o MatchesFrom(text, IF ends[i] = i THEN i + 1 ELSE ends[i], ends)

\* the text the numbers pattern scans
before_numbers(text) ==
    normalize_casual(normalize_abbreviations(normalize_whitespace(normalize_cjk(
        normalize_quotes(text)))))

\* split_num only calls methods of the string it is given
split_num_throws(match) == FALSE

\* flip_money: c.padEnd throws when split(".") gave no second part
flip_money_throws(match) ==
    LET rest == Slice(match, 1, Len(match))
    IN  /\ ~NumberIsNaN(rest)
        /\ Includes(match, ".")
        /\ Len(SplitOn(rest, ".")) < 2

\* point_num: b.split throws when split(".") gave no second part
point_num_throws(match) == Len(SplitOn(match, ".")) < 2

Call(fn, match, threw, out) == [fn |-> fn, match |-> match, threw |-> threw, out |-> out]

split_num_call(match) ==
    IF split_num_throws(match) THEN Call("split_num", match, TRUE, <<>>)
    ELSE Call("split_num", match, FALSE, split_num(match))

flip_money_call(match) ==
    IF flip_money_throws(match) THEN Call("flip_money", match, TRUE, <<>>)
    ELSE Call("flip_money", match, FALSE, flip_money(match))

point_num_call(match) ==
    IF point_num_throws(match) THEN Call("point_num", match, TRUE, <<>>)
    ELSE Call("point_num", match, FALSE, point_num(match))

Threw(calls) == \E n \in 1..Len(calls) : calls[n].threw

\* the calls a replace makes on the text it scans
split_num_calls(text) ==
    LET numbers == MatchesFrom(text, 0, [i \in 0..Len(text) |-> MatchNumber(text, i)])
    IN  [n \in 1..Len(numbers) |-> split_num_call(numbers[n])]

flip_money_calls(text) ==
    LET amounts == MatchesFrom(text, 0, [i \in 0..Len(text) |-> MatchMoney(text, i)])
    IN  [n \in 1..Len(amounts) |-> flip_money_call(amounts[n])]

point_num_calls(text) ==
    LET decimals == MatchesFrom(text, 0, [i \in 0..Len(text) |-> MatchDecimal(text, i)])
    IN  [n \in 1..Len(decimals) |-> point_num_call(decimals[n])]

\* the replaces of step 5 in turn, each on the text the one before produced,
\* up to the replace in which a replacer function throws
calls_from_decimals(calls, text) ==
    IF Threw(calls) THEN calls ELSE calls \o point_num_calls(text)

calls_from_money(calls, text) ==
    IF Threw(calls) THEN calls
    ELSE calls_from_decimals(calls \o flip_money_calls(text),
                             ReplaceAll(text, MatchMoney, flip_money))

calls_from_numbers(text) ==
    calls_from_money(split_num_calls(text),
        ReplaceAll(ReplaceAll(text, MatchNumber, split_num),
                   LAMBDA t, i : MatchBetweenDigits(t, i, ","), LAMBDA m : <<>>))

\* the calls of the replacer functions normalize_text(text) makes
ExpanderCalls(text) == calls_from_numbers(before_numbers(text))

NzText == nzBefore \o nzToken \o nzAfter

\* normalize_text(text): the string it returns, unless a replacer function throws
CallNormalize ==
    /\ nzPc = "ready"
    /\ LET calls == ExpanderCalls(NzText)
       IN  /\ nzCalls' = calls
           /\ nzThrew' = Threw(calls)
           /\ nzOut' = IF Threw(calls) THEN <<>> ELSE normalize_text(NzText)
    /\ nzPc' = "done"
    /\ UNCHANGED <<nzKind, nzBefore, nzToken, nzAfter, nzAgain,
                   splitVars, patternLastIndex, phVars, voiceVars, siVars, genVars, lsVars>>

\* normalize_text applied to what it returned
NormalizeAgain ==
    /\ nzPc = "done"
    /\ ~nzThrew
    /\ LET calls == ExpanderCalls(nzOut)
       IN  /\ nzThrew' = Threw(calls)
           /\ nzAgain' = IF Threw(calls) THEN <<>> ELSE normalize_text(nzOut)
    /\ nzPc' = "again"
    /\ UNCHANGED <<nzKind, nzBefore, nzToken, nzAfter, nzCalls, nzOut,
                   splitVars, patternLastIndex, phVars, voiceVars, siVars, genVars, lsVars>>

\* normalize_text is not called on its own
NzIdle ==
    /\ nzKind = "none"
    /\ nzBefore = <<>> /\ nzToken = <<>> /\ nzAfter = <<>>
    /\ nzPc = "idle"
    /\ nzCalls = <<>>
    /\ nzThrew = FALSE
    /\ nzOut = <<>>
    /\ nzAgain = <<>>

(***************************************************************************)
(* KokoroPipelineSingleton.instance.generate(text, { voice }), an async    *)
(* function.  A caller of generate is a caller of getVoiceData: generate   *)
(* validates the voice, awaits phonemize, calls the tokenizer and          *)
(* getVoiceData in one turn, awaits the voice data, awaits the model and   *)
(* the import of RawAudio.  What it invokes is recorded in genCalls.       *)
(***************************************************************************)
VOICES ==
    {"af_heart", "af_alloy", "af_aoede", "af_bella", "af_jessica", "af_kore", "af_nicole",
     "af_nova", "af_river", "af_sarah", "af_sky", "am_adam", "am_echo", "am_eric",
     "am_fenrir", "am_liam", "am_michael", "am_onyx", "am_puck", "am_santa", "bf_emma",
     "bf_isabella", "bm_george", "bm_lewis"}

\* the voices generate is called with: two known ones, a name that is no key of
\* VOICES, a property VOICES only inherits, and no voice at all
Undefined == "undefined"
GenVoices == VoiceKeys \cup {"zf_nobody", "toString", Undefined}

\* the characters of a voice name
Spelling(voice) ==
    CASE voice = "am_michael" -> <<"a", "m", "_", "m", "i", "c", "h", "a", "e", "l">>
      [] voice = "bf_emma" -> <<"b", "f", "_", "e", "m", "m", "a">>
      [] voice = "zf_nobody" -> <<"z", "f", "_", "n", "o", "b", "o", "d", "y">>
      [] voice = "toString" -> <<"t", "o", "S", "t", "r", "i", "n", "g">>

\* String.prototype.charAt
charAt(string, n) == IF n < Len(Spelling(string)) THEN Spelling(string)[n + 1] ELSE ""

\* a language that is "a" whatever the voice
languageOf_american(voice) == "a"

\* const language = voice.charAt(0)
languageOf(voice) ==
    charAt(voice, 0)

Invoked(fn, arg) == [fn |-> fn, arg |-> arg]
GenThrown(what) == [kind |-> "error", what |-> what]

SetGen(g, pc, calls, out) ==
    /\ genPc' = [genPc EXCEPT ![g] = pc]
    /\ genCalls' = [genCalls EXCEPT ![g] = calls]
    /\ genOut' = [genOut EXCEPT ![g] = out]

\* generate up to its first await: the voice is validated, then phonemize is called
generate(g, voiceArg) ==
    /\ genPc[g] = "idle"
    /\ LET voice == IF voiceArg = Undefined THEN "am_michael" ELSE voiceArg
       IN  /\ genVoice' = [genVoice EXCEPT ![g] = voice]
           /\ IF voice \notin VOICES
              THEN SetGen(g, "thrown", genCalls[g], GenThrown("voice not found"))
              ELSE SetGen(g, "phonemizing",
                          Append(genCalls[g], Invoked("phonemize", languageOf(voice))),
                          genOut[g])
    /\ UNCHANGED <<splitVars, patternLastIndex, phVars, voiceVars, siVars, nzVars, lsVars>>

\* phonemize settled: generate rethrows, or calls the tokenizer and getVoiceData
generate_phonemized(g, ok) ==
    /\ genPc[g] = "phonemizing"
    /\ UNCHANGED genVoice
    /\ IF ok
       THEN /\ getVoiceData(g, genVoice[g])
            /\ SetGen(g, "loadingVoice",
                      genCalls[g] \o <<Invoked("tokenizer", "phonemes"),
                                       Invoked("getVoiceData", genVoice[g])>>,
                      genOut[g])
       ELSE /\ SetGen(g, "thrown", genCalls[g], GenThrown("phonemize"))
            /\ UNCHANGED <<splitVars, patternLastIndex, phVars, voiceVars, siVars, nzVars,
                           lsVars>>

\* getVoiceData settled: generate rethrows, or builds the tensors and calls the model
generate_voiceData(g) ==
    /\ genPc[g] = "loadingVoice"
    /\ gvPc[g] \in {"returned", "thrown"}
    /\ IF gvPc[g] = "returned"
       THEN SetGen(g, "running", Append(genCalls[g], Invoked("model", gvOut[g])), genOut[g])
       ELSE SetGen(g, "thrown", genCalls[g], gvOut[g])
    /\ UNCHANGED <<genVoice, splitVars, patternLastIndex, phVars, voiceVars, siVars, nzVars,
                   lsVars>>

\* the model settled: generate rethrows, or imports RawAudio
generate_modelDone(g, ok) ==
    /\ genPc[g] = "running"
    /\ IF ok THEN SetGen(g, "importing", genCalls[g], genOut[g])
       ELSE SetGen(g, "thrown", genCalls[g], GenThrown("model"))
    /\ UNCHANGED <<genVoice, splitVars, patternLastIndex, phVars, voiceVars, siVars, nzVars,
                   lsVars>>

\* the import settled: generate rethrows, or returns the audio
generate_imported(g, ok) ==
    /\ genPc[g] = "importing"
    /\ IF ok THEN SetGen(g, "returned", genCalls[g], [kind |-> "audio", what |-> genVoice[g]])
       ELSE SetGen(g, "thrown", genCalls[g], GenThrown("import"))
    /\ UNCHANGED <<genVoice, splitVars, patternLastIndex, phVars, voiceVars, siVars, nzVars,
                   lsVars>>

\* generate is not called
GenIdle ==
    /\ genPc = [g \in VoiceCallers |-> "idle"]
    /\ genVoice = [g \in VoiceCallers |-> ""]
    /\ genCalls = [g \in VoiceCallers |-> <<>>]
    /\ genOut = [g \in VoiceCallers |-> NoData]

(***************************************************************************)
(* The chrome.runtime.onMessage listener and classify.  A message is a     *)
(* caller of PipelineSingleton.getInstance: the listener starts an async   *)
(* function that runs classify up to its await of getInstance in the same  *)
(* turn, and returns true; classify resumes when getInstance settled and   *)
(* calls the model; when the model settled the result is handed to         *)
(* sendResponse.                                                           *)
(***************************************************************************)
Messages == InstanceCallers
MessageActions == {"classify", "speak"}
MessageTexts == {"good", "bad"}
NoMessage == [action |-> "", text |-> ""]

\* what the model resolves to for a text
Result(text) == [kind |-> "classification", of |-> text]

SetLs(m, pc, sent) ==
    /\ lsPc' = [lsPc EXCEPT ![m] = pc]
    /\ lsSent' = [lsSent EXCEPT ![m] = sent]

\* the listener called with a message
onMessage(m, message) ==
    /\ lsPc[m] = "none"
    /\ lsMessage' = [lsMessage EXCEPT ![m] = message]
    /\ IF message.action # "classify"
       THEN /\ SetLs(m, "ignored", lsSent[m])
            /\ lsReturn' = [lsReturn EXCEPT ![m] = "undefined"]
            /\ UNCHANGED <<splitVars, patternLastIndex, phVars, voiceVars, siVars, nzVars,
                           genVars>>
       ELSE /\ PipelineSingleton_getInstance(m)
            /\ SetLs(m, "loading", lsSent[m])
            /\ lsReturn' = [lsReturn EXCEPT ![m] = "true"]

\* classify after its await of getInstance: it rethrows, or calls the model
classify_resume(m) ==
    /\ lsPc[m] = "loading"
    /\ siPc["PipelineSingleton"][m] \in {"returned", "thrown"}
    /\ SetLs(m, IF siPc["PipelineSingleton"][m] = "returned" THEN "running" ELSE "failed",
             lsSent[m])
    /\ UNCHANGED <<lsMessage, lsReturn, splitVars, patternLastIndex, phVars, voiceVars, siVars,
                   nzVars, genVars>>

\* the model settled: classify returns the result and the async function of the
\* listener hands it to sendResponse, or both reject
model_settle(m, ok) ==
    /\ lsPc[m] = "running"
    /\ IF ok THEN SetLs(m, "responded", Append(lsSent[m], Result(lsMessage[m].text)))
       ELSE SetLs(m, "failed", lsSent[m])
    /\ UNCHANGED <<lsMessage, lsReturn, splitVars, patternLastIndex, phVars, voiceVars, siVars,
                   nzVars, genVars>>

\* no message has arrived
LsIdle ==
    /\ lsPc = [m \in Messages |-> "none"]
    /\ lsMessage = [m \in Messages |-> NoMessage]
    /\ lsReturn = [m \in Messages |-> "none"]
    /\ lsSent = [m \in Messages |-> <<>>]

\* split is not called on its own
SplitIdle == splitText = <<>> /\ splitOut = <<>> /\ splitPc = "idle"

\* no call of phonemize is made
PhIdle ==
    /\ phArgs = [c \in Calls |-> NoArgs]
    /\ phPc = [c \in Calls |-> "unused"]
    /\ phSections = [c \in Calls |-> <<>>]
    /\ phSlots = [c \in Calls |-> <<>>]
    /\ phAll = [c \in Calls |-> Unsettled]
    /\ phPs = [c \in Calls |-> <<>>]
    /\ phResult = [c \in Calls |-> <<>>]
    /\ phError = [c \in Calls |-> NoError]
    /\ phInvoked = [c \in Calls |-> <<>>]
    /\ phSettled = [c \in Calls |-> <<>>]
    /\ g2p = {}

\* the calls `made` are about to run, call 1 with arguments of args1 and call 2
\* with arguments of args2
PhInit(made, args1, args2) ==
    /\ \E a1 \in args1, a2 \in args2 : phArgs = (1 :> a1) @@ (2 :> a2)
    /\ phPc = [c \in Calls |-> IF c \in made THEN "idle" ELSE "unused"]
    /\ phSections = [c \in Calls |-> <<>>]
    /\ phSlots = [c \in Calls |-> <<>>]
    /\ phAll = [c \in Calls |-> Unsettled]
    /\ phPs = [c \in Calls |-> <<>>]
    /\ phResult = [c \in Calls |-> <<>>]
    /\ phError = [c \in Calls |-> NoError]
    /\ phInvoked = [c \in Calls |-> <<>>]
    /\ phSettled = [c \in Calls |-> <<>>]
    /\ g2p = {}

vars == <<splitVars, patternLastIndex, phVars, voiceVars, siVars, nzVars, genVars, lsVars>>

NextPhonemize ==
    \E c \in Calls :
        \/ phonemize(c)
        \/ \E i \in 1..Len(phSlots[c]), out \in BackendOutputs : espeak_resolve(c, i, out)
        \/ \E i \in 1..Len(phSlots[c]) : espeak_reject(c, i)
        \/ phonemize_resume(c)
        \/ phonemize_throw(c)

\* one call, on every text over PhonAlphabet up to MaxTextLen
AllArgs ==
    [text : StringsUpTo(PhonAlphabet, MaxTextLen), language : Languages, norm : BOOLEAN]

InitPhonemize ==
    SplitIdle /\ patternLastIndex = 0 /\ PhInit({1}, AllArgs, {NoArgs}) /\ VoiceIdle /\ SiIdle /\ NzIdle /\ GenIdle /\ LsIdle

SpecPhonemize == InitPhonemize /\ [][NextPhonemize]_vars

\* two concurrent calls
PairTexts == {<<"a">>, <<"b", ".">>}
PairArgs == [text : PairTexts, language : Languages, norm : BOOLEAN]

InitPair ==
    SplitIdle /\ patternLastIndex = 0 /\ PhInit({1, 2}, PairArgs, PairArgs) /\ VoiceIdle /\ SiIdle /\ NzIdle /\ GenIdle /\ LsIdle

SpecPair == InitPair /\ [][NextPhonemize]_vars

(***************************************************************************)
(* SpecSplit: split on every string over SplitAlphabet up to MaxSplitLen.  *)
(***************************************************************************)
SplitAlphabet == {"a", " ", ".", "!", "\n"}

SplitInit ==
    /\ splitText \in StringsUpTo(SplitAlphabet, MaxSplitLen)
    /\ splitOut = <<>>
    /\ splitPc = "ready"

CallSplit ==
    /\ splitPc = "ready"
    /\ splitOut' = split(splitText, PUNCTUATION_PATTERN)
    /\ splitPc' = "done"
    /\ UNCHANGED <<splitText, patternLastIndex, phVars, voiceVars, siVars, nzVars, genVars, lsVars>>

InitSplit == SplitInit /\ patternLastIndex = 0 /\ PhIdle /\ VoiceIdle /\ SiIdle /\ NzIdle /\ GenIdle /\ LsIdle

NextSplit == CallSplit

SpecSplit == InitSplit /\ [][NextSplit]_vars

(***************************************************************************)
(* SpecVoice: the callers of getVoiceData, up to MaxVoiceCalls calls.      *)
(***************************************************************************)
InitVoice == SplitIdle /\ patternLastIndex = 0 /\ PhIdle /\ VoiceIdle /\ SiIdle /\ NzIdle /\ GenIdle /\ LsIdle

NextVoice ==
    \E k \in VoiceCallers :
        \/ \E voice \in VoiceKeys : getVoiceData(k, voice) /\ UNCHANGED genVars
        \/ \E ok \in BOOLEAN : fetch_resolve(k, ok)
        \/ fetch_reject(k)
        \/ arrayBuffer_resolve(k)
        \/ arrayBuffer_reject(k)

SpecVoice == InitVoice /\ [][NextVoice]_vars

(***************************************************************************)
(* SpecGenerate: two calls of generate, each with any voice of GenVoices.  *)
(***************************************************************************)
InitGenerate ==
    SplitIdle /\ patternLastIndex = 0 /\ PhIdle /\ VoiceIdle /\ SiIdle /\ NzIdle /\ GenIdle /\ LsIdle

NextGenerate ==
    \E g \in VoiceCallers :
        \/ \E voiceArg \in GenVoices : generate(g, voiceArg)
        \/ \E ok \in BOOLEAN : generate_phonemized(g, ok)
        \/ \E ok \in BOOLEAN : fetch_resolve(g, ok)
        \/ fetch_reject(g)
        \/ arrayBuffer_resolve(g)
        \/ arrayBuffer_reject(g)
        \/ generate_voiceData(g)
        \/ \E ok \in BOOLEAN : generate_modelDone(g, ok)
        \/ \E ok \in BOOLEAN : generate_imported(g, ok)

SpecGenerate == InitGenerate /\ [][NextGenerate]_vars

(***************************************************************************)
(* SpecListener: two messages, each with any action of MessageActions.     *)
(* SpecListenerLive adds that a pending promise settles and that a         *)
(* continuation whose promise settled runs.                                *)
(***************************************************************************)
InitListener ==
    SplitIdle /\ patternLastIndex = 0 /\ PhIdle /\ VoiceIdle /\ SiIdle /\ NzIdle /\ GenIdle /\ LsIdle

NextListener ==
    \/ \E ok \in BOOLEAN : pipeline_settle(ok)
    \/ \E m \in Messages :
          \/ \E message \in [action : MessageActions, text : MessageTexts] :
                onMessage(m, message)
          \/ PipelineSingleton_resume(m)
          \/ classify_resume(m)
          \/ \E ok \in BOOLEAN : model_settle(m, ok)

SpecListener == InitListener /\ [][NextListener]_vars

SpecListenerLive ==
    /\ SpecListener
    /\ WF_vars(\E ok \in BOOLEAN : pipeline_settle(ok))
    /\ \A m \in Messages :
          /\ WF_vars(PipelineSingleton_resume(m))
          /\ WF_vars(classify_resume(m))
          /\ WF_vars(\E ok \in BOOLEAN : model_settle(m, ok))

(***************************************************************************)
(* SpecSingleton: the callers of the three getInstance, up to              *)
(* MaxInstanceCalls calls.                                                 *)
(***************************************************************************)
InitSingleton == SplitIdle /\ patternLastIndex = 0 /\ PhIdle /\ VoiceIdle /\ SiIdle /\ NzIdle /\ GenIdle /\ LsIdle

NextSingleton ==
    \/ \E ok \in BOOLEAN : pipeline_settle(ok)
    \/ \E k \in InstanceCallers :
          \/ PipelineSingleton_getInstance(k) /\ UNCHANGED lsVars
          \/ PipelineSingleton_resume(k)
          \/ TTSPipelineSingleton_getInstance(k)
          \/ \E ok \in BOOLEAN : TTSPipelineSingleton_resume(k, ok)
          \/ KokoroPipelineSingleton_getInstance(k)
          \/ \E ok \in BOOLEAN : Kokoro_imported(k, ok)
          \/ \E ok \in BOOLEAN : Kokoro_tokenizerLoaded(k, ok)
          \/ \E ok \in BOOLEAN : Kokoro_modelLoaded(k, ok)

SpecSingleton == InitSingleton /\ [][NextSingleton]_vars

(***************************************************************************)
(* SpecNormalize: normalize_text on every text over FreeAlphabet up to     *)
(* MaxNormLen characters, and on tokens (times, four-digit numbers,        *)
(* currency amounts, decimals, abbreviations) on their own and between     *)
(* words.                                                                  *)
(***************************************************************************)
\* the characters of step 1 and a letter
QuoteAlphabet == {"(", ")", LGuil, RGuil, LSQuo, RSQuo, LDQuo, RDQuo, "a"}
FreeAlphabet == {"a", " ", "\t"}

\* H:MM for every hour 1..12 and minutes at the boundaries of split_num
Hours == {<<d>> : d \in Digit \ {"0"}} \cup {<<"1", "0">>, <<"1", "1">>, <<"1", "2">>}
Minutes == {<<a, b>> : a \in {"0", "1", "4", "5"}, b \in {"0", "1", "5", "9"}}
TimeTokens == {h \o <<":">> \o m : h \in Hours, m \in Minutes}

\* four-digit numbers around the boundaries of split_num, with and without "s"
YearDigits ==
    {<<a, b, c, d>> : a \in {"0", "1", "2"}, b \in {"0", "1", "9"},
                      c \in {"0", "8"}, d \in {"0", "5"}}
    \cup {<<"1", "9", "8", "4">>, <<"1", "0", "5", "0">>, <<"1", "0", "9", "9">>,
          <<"2", "0", "1", "0">>, <<"9", "9", "9", "9">>}
YearTokens == YearDigits \cup {y \o <<"s">> : y \in YearDigits}

\* currency amounts: a symbol, a whole part and, maybe, a fraction
Wholes == {<<"1">>, <<"5">>, <<"1", "2">>}
Fractions == {<<"1">>, <<"0", "0">>, <<"0", "1">>, <<"2", "5">>, <<"1", "2", "5">>}
WholeMoneyTokens == {<<c>> \o w : c \in {"$", Pound}, w \in Wholes}
DecimalMoneyTokens ==
    {<<c>> \o w \o <<".">> \o f : c \in {"$", Pound}, w \in Wholes, f \in Fractions}
MoneyTokens == WholeMoneyTokens \cup DecimalMoneyTokens

\* whole amounts of one to five digits
AmountDigits ==
    {<<"0">>, <<"1">>, <<"5">>, <<"1", "2">>, <<"1", "0", "0">>, <<"1", "0", "5", "0">>,
     <<"1", "9", "8", "4">>, <<"2", "0", "0", "5">>, <<"1", "2", "3", "4", "5">>}
AmountTokens == {<<c>> \o n : c \in {"$", Pound}, n \in AmountDigits}

\* decimals: an integer part, a point and a fraction
DecimalTokens ==
    {w \o <<".">> \o f : w \in Wholes \cup {<<"3">>}, f \in Fractions \cup {<<"1", "4">>}}

\* the abbreviations of step 4
TitleTokens ==
    {<<"M", "r", ".">>, <<"M", "R", ".">>, <<"M", "s", ".">>, <<"M", "S", ".">>,
     <<"M", "r", "s", ".">>, <<"M", "R", "S", ".">>, <<"D", "r", ".">>, <<"D", "R", ".">>,
     <<"e", "t", "c", ".">>}

\* a currency amount, a decimal and a year or a time in one text
MixedTokens ==
    {<<"$", "5", ".", "2", "5", " ", "3", ".", "1", "4", " ", "1", "9", "8", "4">>,
     <<Pound, "1", " ", "1", "2", ".", "5", " ", "2", ":", "0", "5">>}

\* what stands before and after a token; a capital only after an abbreviation
Befores == {<<>>, <<"a", " ">>}
AftersOf(kind) ==
    IF kind = "title" THEN {<<>>, <<" ", "a">>, <<" ", "A">>} ELSE {<<>>, <<" ", "a">>}

TokensOf(kind) ==
    CASE kind = "time" -> TimeTokens
      [] kind = "year" -> YearTokens
      [] kind = "money" -> MoneyTokens
      [] kind = "decimal" -> DecimalTokens
      [] kind = "title" -> TitleTokens
      [] kind = "mixed" -> MixedTokens
      [] kind = "amount" -> AmountTokens

NzInit ==
    /\ \/ /\ nzKind = "free"
          /\ nzToken \in StringsUpTo(FreeAlphabet, MaxNormLen)
          /\ nzBefore = <<>> /\ nzAfter = <<>>
       \/ /\ nzKind = "quote"
          /\ nzToken \in StringsUpTo(QuoteAlphabet, MaxQuoteLen)
          /\ nzBefore = <<>> /\ nzAfter = <<>>
       \/ /\ nzKind \in {"time", "year", "money", "decimal", "title", "mixed", "amount"}
          /\ nzToken \in TokensOf(nzKind)
          /\ nzBefore \in Befores
          /\ nzAfter \in AftersOf(nzKind)
    /\ nzPc = "ready"
    /\ nzCalls = <<>>
    /\ nzThrew = FALSE
    /\ nzOut = <<>>
    /\ nzAgain = <<>>

InitNormalize == SplitIdle /\ patternLastIndex = 0 /\ PhIdle /\ VoiceIdle /\ SiIdle /\ NzInit /\ GenIdle /\ LsIdle

NextNormalize == CallNormalize \/ NormalizeAgain

SpecNormalize == InitNormalize /\ [][NextNormalize]_vars

(***************************************************************************)
(* C1: concatenating the texts of the segments split returns, in order,    *)
(* gives back the input string exactly.                                    *)
(***************************************************************************)
C1_SplitLossless ==
    splitPc = "done" => Concat(SegTexts(splitOut)) = splitText

\* an input with content before, between and after two punctuation runs
C1_Witness ==
    /\ splitPc = "done"
    /\ Len(splitOut) = 3
    /\ ~splitOut[1].match /\ splitOut[2].match /\ ~splitOut[3].match
    /\ Concat(SegTexts(splitOut)) = splitText

(***************************************************************************)
(* Notions the claims about phonemize share.                               *)
(***************************************************************************)
Started(c) == phPc[c] \in {"awaiting", "returned", "thrown"}

\* the number of backend invocations of call c made for section i
InvokedTimes(c, i) ==
    Cardinality({k \in 1..Len(phInvoked[c]) : phInvoked[c][k].index = i})

\* the sections of call c that are content
ContentSections(c) == {i \in 1..Len(phSections[c]) : ~phSections[c][i].match}

\* the sections of call c whose backend call has resolved, and those that failed
ResolvedSections(c) ==
    {phSettled[c][k].index : k \in {k \in 1..Len(phSettled[c]) : phSettled[c][k].ok}}

FailedSections(c) ==
    {phSettled[c][k].index : k \in {k \in 1..Len(phSettled[c]) : ~phSettled[c][k].ok}}

\* the section whose backend call failed first
FirstFailed(c) ==
    LET k == CHOOSE k \in 1..Len(phSettled[c]) :
                 /\ ~phSettled[c][k].ok
                 /\ \A j \in 1..(k - 1) : phSettled[c][j].ok
    IN  phSettled[c][k].index

OnlyPunctuationAndSpace(text) ==
    \A k \in 1..Len(text) : text[k] \in PUNCTUATION \cup WhiteSpace

OnlySpace(text) == \A k \in 1..Len(text) : text[k] \in WhiteSpace

\* the backend is invoked once per content section, with that section's text and
\* the dialect of the language, and never for a punctuation section
OncePerContentSection(c) ==
    /\ \A i \in 1..Len(phSections[c]) :
          InvokedTimes(c, i) = IF phSections[c][i].match THEN 0 ELSE 1
    /\ \A k \in 1..Len(phInvoked[c]) :
          /\ phInvoked[c][k].index \in 1..Len(phSections[c])
          /\ phInvoked[c][k].text = phSections[c][phInvoked[c][k].index].text
          /\ phArgs[c].language = "a" => phInvoked[c][k].lang = "en-us"
          /\ phArgs[c].language = "b" => phInvoked[c][k].lang = "en"

(***************************************************************************)
(* C2, as stated: the backend is invoked exactly once for each content     *)
(* segment, with the dialect of the language, never for a punctuation      *)
(* segment, and never when the text is empty or consists only of           *)
(* punctuation and white space.                                            *)
(***************************************************************************)
C2_Original ==
    \A c \in Calls :
        Started(c) =>
            /\ OncePerContentSection(c)
            /\ OnlyPunctuationAndSpace(phArgs[c].text) => phInvoked[c] = <<>>

(***************************************************************************)
(* C2, amended: as stated, except that a non-empty text of white space     *)
(* only that is passed with norm = false is one content segment and goes   *)
(* to the backend once.                                                    *)
(***************************************************************************)
C2_BackendOncePerContent ==
    \A c \in Calls :
        Started(c) =>
            LET text == phArgs[c].text
                rawSpace == ~phArgs[c].norm /\ text # <<>> /\ OnlySpace(text)
            IN  /\ OncePerContentSection(c)
                /\ OnlyPunctuationAndSpace(text) /\ ~rawSpace => phInvoked[c] = <<>>
                /\ rawSpace => /\ Len(phInvoked[c]) = 1
                               /\ phInvoked[c][1].text = text

\* a call with a punctuation segment between two content segments has made its
\* two backend calls
C2_Witness ==
    /\ phPc[1] = "awaiting"
    /\ Len(phSections[1]) = 3
    /\ phSections[1][2].match
    /\ Len(phInvoked[1]) = 2
    /\ phInvoked[1][1].index = 1 /\ phInvoked[1][2].index = 3

(***************************************************************************)
(* C3: whatever the order in which the backend calls of a call complete,   *)
(* the string handed to post-processing is the concatenation of the        *)
(* segment outputs in segment order: the text of a punctuation segment,    *)
(* the backend's phonemes joined with a space for a content segment.       *)
(***************************************************************************)
BackendOutput(text, lang) ==
    (CHOOSE e \in g2p : e.text = text /\ e.lang = lang).out

SegmentOutput(c, i) ==
    IF phSections[c][i].match THEN phSections[c][i].text
    ELSE Join(BackendOutput(phSections[c][i].text, InvocationOf(c, i).lang), <<" ">>)

C3_IndexOrder ==
    \A c \in Calls :
        phPc[c] = "returned" =>
            phPs[c] = Concat([i \in 1..Len(phSections[c]) |-> SegmentOutput(c, i)])

\* the call returned after its third section completed before its first, the two
\* with different outputs
C3_Witness ==
    /\ phPc[1] = "returned"
    /\ Len(phSettled[1]) = 2
    /\ phSettled[1][1].index = 3 /\ phSettled[1][2].index = 1
    /\ phSlots[1][1].value # phSlots[1][3].value
    /\ phPs[1] = phSlots[1][1].value \o phSlots[1][2].value \o phSlots[1][3].value

(***************************************************************************)
(* C4: once the backend call of a content segment has failed, the call     *)
(* never returns a string; it is rejected with the error of the backend    *)
(* call that failed first (the failure itself when only one fails), and no *)
(* segment is sent to the backend a second time.                           *)
(***************************************************************************)
C4_FailurePropagates ==
    \A c \in Calls :
        /\ FailedSections(c) # {} =>
              /\ phPc[c] \in {"awaiting", "thrown"}
              /\ phResult[c] = <<>>
              /\ phAll[c] = [state |-> "rejected", reason |-> EspeakError(c, FirstFailed(c))]
              /\ phPc[c] = "thrown" => phError[c] = EspeakError(c, FirstFailed(c))
        /\ phPc[c] = "thrown" => FailedSections(c) # {}
        /\ \A i \in 1..Len(phSections[c]) : InvokedTimes(c, i) <= 1

\* the call was rejected with the failure of its third segment although its
\* first segment had been converted
C4_Witness ==
    /\ phPc[1] = "thrown"
    /\ ResolvedSections(1) = {1}
    /\ FailedSections(1) = {3}
    /\ phError[1] = EspeakError(1, 3)
    /\ phResult[1] = <<>>

(***************************************************************************)
(* C5: the join blocks: while a backend call of the call is outstanding,   *)
(* post-processing has not run and nothing has been returned; a call that  *)
(* returned has had every one of its N content segments converted.         *)
(***************************************************************************)
C5_BlockingJoin ==
    \A c \in Calls :
        /\ ResolvedSections(c) # ContentSections(c) =>
              /\ phPc[c] # "returned"
              /\ phPs[c] = <<>>
              /\ phResult[c] = <<>>
        /\ phPc[c] = "returned" =>
              /\ ResolvedSections(c) = ContentSections(c)
              /\ Len(phSettled[c]) = Cardinality(ContentSections(c))

\* one of the two backend calls has completed and the call is still waiting
C5_Witness ==
    /\ phPc[1] = "awaiting"
    /\ Cardinality(ContentSections(1)) = 2
    /\ Cardinality(ResolvedSections(1)) = 1
    /\ FailedSections(1) = {}
    /\ phSlots[1][1].value # <<>>
    /\ phResult[1] = <<>>

(***************************************************************************)
(* Where the texts of the punctuation segments are in the returned string. *)
(***************************************************************************)
\* the least offset >= from at which needle occurs in hay, -1 when there is none
RECURSIVE FindFrom(_, _, _)
FindFrom(hay, needle, from) ==
    IF from + Len(needle) > Len(hay) THEN -1
    ELSE IF LitAt(hay, from, needle) THEN from
    ELSE FindFrom(hay, needle, from + 1)

\* the strings of needles occur in hay from offset `from` on, in order, one after
\* the other without overlap
RECURSIVE Embeds(_, _, _)
Embeds(needles, hay, from) ==
    IF needles = <<>> THEN TRUE
    ELSE LET at == FindFrom(hay, Head(needles), from)
         IN  /\ at # -1
             /\ Embeds(Tail(needles), hay, at + Len(Head(needles)))

NonWhite(s) == \E k \in 1..Len(s) : s[k] \notin WhiteSpace

\* what the sections before and after section i of call c contribute to ps
OutputBefore(c, i) == Concat([j \in 1..(i - 1) |-> phSlots[c][j].value])
OutputAfter(c, i) ==
    Concat([j \in 1..(Len(phSlots[c]) - i) |-> phSlots[c][i + j].value])

PunctuationSections(c) == SelectSeq([i \in 1..Len(phSections[c]) |-> i],
                                    LAMBDA i : phSections[c][i].match)

\* the part of punctuation section i that the final trim and the " z" rule cannot
\* reach: all of it, less the leading white space when nothing but white space
\* comes before it, less the trailing white space when nothing but white space
\* comes after it or a z sound follows it
KeptText(c, i) ==
    LET text == phSections[c][i].text
        after == OutputAfter(c, i)
        t1 == IF NonWhite(OutputBefore(c, i)) THEN text ELSE TrimStart(text)
    IN  IF NonWhite(after) /\ Head(after) # "z" THEN t1 ELSE TrimEnd(t1)

(***************************************************************************)
(* C6, as stated: every punctuation segment is in the string phonemize     *)
(* returns, in segment order, character for character, its surrounding     *)
(* white space included.                                                   *)
(***************************************************************************)
C6_Original ==
    \A c \in Calls :
        phPc[c] = "returned" =>
            LET ix == PunctuationSections(c)
            IN  Embeds([n \in 1..Len(ix) |-> phSections[c][ix[n]].text], phResult[c], 0)

(***************************************************************************)
(* C6, amended: every punctuation segment is in the returned string, in    *)
(* segment order, character for character from its first to its last       *)
(* punctuation character; its leading white space is there too unless only *)
(* white space precedes the segment in the output (the final trim), and    *)
(* its trailing white space unless only white space follows it (the final  *)
(* trim) or a z sound follows it (the rule that removes the space before   *)
(* a z).                                                                   *)
(***************************************************************************)
C6_PunctuationKept ==
    \A c \in Calls :
        phPc[c] = "returned" =>
            LET ix == PunctuationSections(c)
            IN  /\ Embeds([n \in 1..Len(ix) |-> KeptText(c, ix[n])], phResult[c], 0)
                /\ Embeds([n \in 1..Len(ix) |-> Trim(phSections[c][ix[n]].text)],
                          phResult[c], 0)

\* a call returned a string that post-processing changed, with the white space
\* and the full stop of its punctuation segment in place after the phonemes
C6_Witness ==
    /\ phPc[1] = "returned"
    /\ Len(phSections[1]) = 2
    /\ phSections[1][2].match
    /\ phSections[1][2].text = <<" ", ".">>
    /\ KeptText(1, 2) = <<" ", ".">>
    /\ phResult[1] # phPs[1]
    /\ NonWhite(phSlots[1][1].value)
    /\ Embeds(<<phSections[1][2].text>>, phResult[1], 0)

(***************************************************************************)
(* C7: phonemize keeps no state: the punctuation pattern is never changed  *)
(* (its lastIndex stays 0), the segments of a call are those of its own    *)
(* text whatever calls ran before or run alongside, and with one backend   *)
(* two calls with equal (text, language, norm) return equal strings.       *)
(***************************************************************************)
C7_Stateless ==
    /\ patternLastIndex = 0
    /\ \A c \in Calls :
          Started(c) =>
              phSections[c] =
                  split(IF phArgs[c].norm THEN normalize_text(phArgs[c].text)
                        ELSE phArgs[c].text,
                        [class |-> PUNCTUATION, lastIndex |-> 0])
    /\ \A c1, c2 \in Calls :
          /\ phPc[c1] = "returned" /\ phPc[c2] = "returned"
          /\ phArgs[c1] = phArgs[c2]
          => phResult[c1] = phResult[c2]

\* two calls with the same arguments, a text with a punctuation run, both
\* returned the same non-empty string
C7_Witness ==
    /\ phPc[1] = "returned" /\ phPc[2] = "returned"
    /\ phArgs[1] = phArgs[2]
    /\ phArgs[1].text = <<"b", ".">>
    /\ Len(phSections[2]) = 2
    /\ Len(phResult[1]) > 1
    /\ phResult[1] = phResult[2]

(***************************************************************************)
(* C8: the rule "ti after the nine sequence, not before a length mark,     *)
(* becomes di" is applied for language "a" only.  A string returned for    *)
(* "a" has no such sequence left; a string returned for another language   *)
(* has as many as the concatenated backend output had; and for the same    *)
(* concatenated backend output the two strings have the same length and    *)
(* differ only in the t of such a sequence, which is d for "a".            *)
(***************************************************************************)
NinetyAt(text) == {i \in 0..Len(text) : MatchNinety(text, i) # -1}

C8_AmericanOnly ==
    /\ \A c \in Calls :
          phPc[c] = "returned" =>
              IF phArgs[c].language = "a"
              THEN NinetyAt(phResult[c]) = {}
              ELSE Cardinality(NinetyAt(phResult[c])) = Cardinality(NinetyAt(phPs[c]))
    /\ \A c1, c2 \in Calls :
          /\ phPc[c1] = "returned" /\ phPc[c2] = "returned"
          /\ phPs[c1] = phPs[c2]
          /\ phArgs[c1].language = "a" /\ phArgs[c2].language # "a"
          => /\ Len(phResult[c1]) = Len(phResult[c2])
             /\ \A k \in 1..Len(phResult[c2]) :
                   IF (k - 1) \in NinetyAt(phResult[c2])
                   THEN phResult[c1][k] = "d" /\ phResult[c2][k] = "t"
                   ELSE phResult[c1][k] = phResult[c2][k]

\* the same backend output with the nine-ti sequence, returned for "a" and for "b"
C8_Witness ==
    /\ phPc[1] = "returned" /\ phPc[2] = "returned"
    /\ phArgs[1].language = "a" /\ phArgs[2].language = "b"
    /\ phPs[1] = phPs[2]
    /\ NinetyAt(phPs[1]) # {}
    /\ phResult[1] # phResult[2]
    /\ NinetyAt(phResult[2]) # {}

(***************************************************************************)
(* C9: a language that is neither "a" nor "b" does not make phonemize      *)
(* fail: the call throws only if a backend call failed; every backend call *)
(* it makes has dialect code "en"; and for the same concatenated backend   *)
(* output it returns what a call with "b" or with any other unknown        *)
(* language returns.                                                       *)
(***************************************************************************)
UnknownLanguage(l) == l \notin {"a", "b"}

C9_UnknownDialectFallsBack ==
    /\ \A c \in Calls :
          Started(c) /\ UnknownLanguage(phArgs[c].language) =>
              /\ \A k \in 1..Len(phInvoked[c]) : phInvoked[c][k].lang = "en"
              /\ phPc[c] = "thrown" => FailedSections(c) # {}
              /\ phAll[c].state = "rejected" => FailedSections(c) # {}
    /\ \A c1, c2 \in Calls :
          /\ phPc[c1] = "returned" /\ phPc[c2] = "returned"
          /\ UnknownLanguage(phArgs[c1].language) /\ phArgs[c2].language # "a"
          /\ phPs[c1] = phPs[c2]
          => phResult[c1] = phResult[c2]

\* calls with the unknown languages "j" and "z" went to the backend with "en"
\* and returned the same string, one with the nine-ti sequence untouched
C9_Witness ==
    /\ phPc[1] = "returned" /\ phPc[2] = "returned"
    /\ phArgs[1].language = "j" /\ phArgs[2].language = "z"
    /\ phInvoked[1] # <<>> /\ phInvoked[1][1].lang = "en"
    /\ phInvoked[2] # <<>> /\ phInvoked[2][1].lang = "en"
    /\ NinetyAt(phResult[1]) # {}
    /\ phResult[1] = phResult[2]

(***************************************************************************)
(* C10, as stated: at most one fetch per voice is outstanding: while a     *)
(* call getVoiceData(v) has not completed, no second fetch for v is        *)
(* issued.                                                                 *)
(***************************************************************************)
C10_OneOutstandingFetch ==
    \A voice \in VoiceKeys : Cardinality(InFlight(voice)) <= 1

(***************************************************************************)
(* C11, as stated: each singleton class initializes once only: whatever    *)
(* the interleaving of getInstance calls, the model load of a class is     *)
(* started at most once and all callers of a class receive the same        *)
(* instance.                                                               *)
(***************************************************************************)
ModelLoads(cls) ==
    {n \in 1..Len(siStarted[cls]) : siStarted[cls][n] \in {"pipeline", "model"}}

C11_InitializesOnce ==
    \A cls \in Classes :
        /\ Cardinality(ModelLoads(cls)) <= 1
        /\ \A k1, k2 \in InstanceCallers :
              siPc[cls][k1] = "returned" /\ siPc[cls][k2] = "returned"
              => siOut[cls][k1] = siOut[cls][k2]

(***************************************************************************)
(* C12: normalize_text is total: on no input does one of its replacer      *)
(* functions throw.  flip_money is only ever given a match that begins     *)
(* with a currency sign, and, when the match is a number with a point, one *)
(* with digits after the point; point_num is only ever given a match with  *)
(* a point; so the second part of split(".") is always there.              *)
(***************************************************************************)
C12_Total ==
    nzPc \in {"done", "again"} =>
        /\ ~nzThrew
        /\ \A n \in 1..Len(nzCalls) :
              LET match == nzCalls[n].match
              IN  /\ ~nzCalls[n].threw
                  /\ nzCalls[n].fn = "flip_money" =>
                        /\ match[1] \in {"$", Pound}
                        /\ Includes(match, ".") /\ ~NumberIsNaN(Slice(match, 1, Len(match)))
                           => Len(SplitOn(match, ".")) = 2
                  /\ nzCalls[n].fn = "point_num" => Len(SplitOn(match, ".")) = 2

\* split_num, flip_money and point_num were all called, and normalize_text returned
C12_Witness ==
    /\ nzPc = "done"
    /\ ~nzThrew
    /\ {nzCalls[n].fn : n \in 1..Len(nzCalls)} = {"split_num", "flip_money", "point_num"}
    /\ nzOut # <<>>

(***************************************************************************)
(* C13, as stated: normalize_text is idempotent on a text without smart    *)
(* quotes, CJK punctuation, abbreviations and numerics: normalizing its    *)
(* output again changes nothing.                                           *)
(***************************************************************************)
PlainText(text) ==
    /\ \A k \in 1..Len(text) :
          text[k] \notin Digit \cup {"$", Pound, LSQuo, RSQuo, LDQuo, RDQuo, LGuil, RGuil,
                                   "(", ")", CjkComma, CjkStop, FwExcl, FwComma, FwColon,
                                   FwSemi, FwQuest}
    /\ \A i \in 0..Len(text) :
          /\ MatchDr(text, i) = -1
          /\ MatchTitle(text, i, <<"M", "r", ".">>, <<"M", "R", ".">>) = -1
          /\ MatchTitle(text, i, <<"M", "s", ".">>, <<"M", "S", ".">>) = -1
          /\ MatchTitle(text, i, <<"M", "r", "s", ".">>, <<"M", "R", "S", ".">>) = -1
          /\ MatchEtc(text, i) = -1

C13_Idempotent ==
    nzPc = "again" /\ PlainText(NzText) => nzAgain = nzOut

(***************************************************************************)
(* C14, as stated: the output of normalize_text has no run of two or more  *)
(* spaces, and no white space other than the space and the newline.        *)
(***************************************************************************)
C14_NoSpaceRun ==
    nzPc \in {"done", "again"} =>
        /\ \A k \in 1..(Len(nzOut) - 1) : ~(nzOut[k] = " " /\ nzOut[k + 1] = " ")
        /\ \A k \in 1..Len(nzOut) : nzOut[k] \notin OddSpace

(***************************************************************************)
(* C15: a time H:MM, hour 1..12, on its own or between words, is spoken as *)
(* "H o'clock" when MM is 00, as "H oh M" when MM is 01..09, and as        *)
(* "H MM" otherwise; the words around it are kept.                         *)
(***************************************************************************)
SpokenTime(token) ==
    LET h == SplitOn(token, ":")[1]
        mm == SplitOn(token, ":")[2]
    IN  IF mm = <<"0", "0">> THEN h \o <<" ", "o", "'", "c", "l", "o", "c", "k">>
        ELSE IF mm[1] = "0" THEN h \o <<" ", "o", "h", " ", mm[2]>>
        ELSE h \o <<" ">> \o mm

C15_TimeSpoken ==
    nzPc \in {"done", "again"} /\ nzKind = "time" =>
        nzOut = nzBefore \o SpokenTime(nzToken) \o nzAfter

\* "a 2:05 a" was normalized to "a 2 oh 5 a"
C15_Witness ==
    /\ nzPc = "done"
    /\ nzKind = "time"
    /\ nzToken = <<"2", ":", "0", "5">>
    /\ nzBefore # <<>> /\ nzAfter # <<>>
    /\ nzOut = <<"a", " ", "2", " ", "o", "h", " ", "5", " ", "a">>

(***************************************************************************)
(* C16: a four-digit number Y with an optional "s", on its own or between  *)
(* words, is left as it is when Y < 1100 or Y mod 1000 < 10; otherwise it  *)
(* becomes its first two digits followed by "hundred" when the last two    *)
(* digits are 00, by "oh n" when they are 01..09, and by the last two      *)
(* digits otherwise, the "s" kept.                                         *)
(***************************************************************************)
SpokenYear(token) ==
    LET y == SubSeq(token, 1, 4)
        s == SubSeq(token, 5, Len(token))
    IN  IF y[1] = "0" \/ (y[1] = "1" /\ y[2] = "0") \/ (y[2] = "0" /\ y[3] = "0")
        THEN token
        ELSE IF y[3] = "0" /\ y[4] = "0"
             THEN <<y[1], y[2], " ", "h", "u", "n", "d", "r", "e", "d">> \o s
        ELSE IF y[3] = "0" THEN <<y[1], y[2], " ", "o", "h", " ", y[4]>> \o s
        ELSE <<y[1], y[2], " ", y[3], y[4]>> \o s

C16_YearSpoken ==
    nzPc \in {"done", "again"} /\ nzKind = "year" =>
        nzOut = nzBefore \o SpokenYear(nzToken) \o nzAfter

\* "1900s" was normalized to "19 hundreds"
C16_Witness ==
    /\ nzPc = "done"
    /\ nzKind = "year"
    /\ nzToken = <<"1", "9", "0", "0", "s">>
    /\ nzOut = nzBefore \o <<"1", "9", " ", "h", "u", "n", "d", "r", "e", "d", "s">> \o nzAfter

\* the examples of the specification: 1984, 1905, 1900, 1050 and 1100
C16_Examples ==
    /\ split_num(<<"1", "9", "8", "4">>) = <<"1", "9", " ", "8", "4">>
    /\ split_num(<<"1", "9", "0", "5">>) = <<"1", "9", " ", "o", "h", " ", "5">>
    /\ split_num(<<"1", "0", "5", "0">>) = <<"1", "0", "5", "0">>
    /\ split_num(<<"1", "1", "0", "0">>) = <<"1", "1", " ", "h", "u", "n", "d", "r", "e", "d">>

(***************************************************************************)
(* C17: flip_money speaks the amount before the unit, "dollar" for $ and   *)
(* "pound" for the pound sign.  A whole amount n gives "n units", singular *)
(* only for "1"; an amount w.f gives "w unit(s) and m minor", m being f    *)
(* right-padded to two digits and read as a number, the minor unit         *)
(* cent/cents or penny/pence, singular exactly when m is 1.                *)
(***************************************************************************)
RECURSIVE StripZeros(_)
StripZeros(digits) ==
    IF Len(digits) > 1 /\ digits[1] = "0" THEN StripZeros(Tail(digits)) ELSE digits

SpokenMoney(token) ==
    LET dollars == token[1] = "$"
        amount == Tail(token)
        unit == IF dollars THEN <<"d", "o", "l", "l", "a", "r">>
                ELSE <<"p", "o", "u", "n", "d">>
        plural(n) == IF n = <<"1">> THEN <<>> ELSE <<"s">>
    IN  IF \A k \in 1..Len(amount) : amount[k] # "."
        THEN amount \o <<" ">> \o unit \o plural(amount)
        ELSE LET point == CHOOSE k \in 1..Len(amount) : amount[k] = "."
                 w == SubSeq(amount, 1, point - 1)
                 f == SubSeq(amount, point + 1, Len(amount))
                 m == StripZeros(IF Len(f) = 1 THEN f \o <<"0">> ELSE f)
                 minor == IF dollars
                          THEN IF m = <<"1">> THEN <<"c", "e", "n", "t">>
                               ELSE <<"c", "e", "n", "t", "s">>
                          ELSE IF m = <<"1">> THEN <<"p", "e", "n", "n", "y">>
                               ELSE <<"p", "e", "n", "c", "e">>
             IN  w \o <<" ">> \o unit \o plural(w) \o <<" ", "a", "n", "d", " ">>
                   \o m \o <<" ">> \o minor

MoneyCalls == {n \in 1..Len(nzCalls) : nzCalls[n].fn = "flip_money"}

C17_AmountBeforeUnit ==
    nzPc \in {"done", "again"} =>
        /\ \A n \in MoneyCalls :
               /\ ~nzCalls[n].threw
               /\ nzCalls[n].out = SpokenMoney(nzCalls[n].match)
        /\ nzKind = "money" =>
               /\ MoneyCalls # {}
               /\ nzOut = nzBefore \o SpokenMoney(nzToken) \o nzAfter

\* the pound amount 1.01 between words was spoken "1 pound and 1 penny"
C17_Witness ==
    /\ nzPc = "done"
    /\ nzKind = "money"
    /\ nzToken = <<Pound, "1", ".", "0", "1">>
    /\ nzBefore # <<>> /\ nzAfter # <<>>
    /\ \E n \in MoneyCalls :
           nzCalls[n].out = <<"1", " ", "p", "o", "u", "n", "d", " ", "a", "n", "d", " ",
                              "1", " ", "p", "e", "n", "n", "y">>

(***************************************************************************)
(* C18: for every currency token with a decimal point that the currency    *)
(* pattern of normalize_text matches, the minor-unit number flip_money     *)
(* speaks is in 0..99.                                                     *)
(***************************************************************************)
MinorSpoken(call) == ParseInt(SplitOn(call.out, " ")[4])

C18_MinorInRange ==
    nzPc \in {"done", "again"} =>
        \A n \in MoneyCalls :
            ~nzCalls[n].threw /\ Includes(nzCalls[n].match, ".") =>
                MinorSpoken(nzCalls[n]) \in 0..99

(***************************************************************************)
(* C19: a bare decimal d.f1f2...fk, on its own or between words, is spoken *)
(* as d, the word "point" and every digit of the fraction on its own, with *)
(* single spaces between them.                                             *)
(***************************************************************************)
SpokenDecimal(token) ==
    LET point == CHOOSE k \in 1..Len(token) : token[k] = "."
        d == SubSeq(token, 1, point - 1)
        spaced[k \in (point + 1)..Len(token)] ==
            IF k = point + 1 THEN <<token[k]>> ELSE spaced[k - 1] \o <<" ", token[k]>>
    IN  d \o <<" ", "p", "o", "i", "n", "t", " ">> \o spaced[Len(token)]

C19_DigitsApart ==
    nzPc \in {"done", "again"} /\ nzKind = "decimal" =>
        nzOut = nzBefore \o SpokenDecimal(nzToken) \o nzAfter

\* "a 3.14 a" was normalized to "a 3 point 1 4 a"
C19_Witness ==
    /\ nzPc = "done"
    /\ nzKind = "decimal"
    /\ nzToken = <<"3", ".", "1", "4">>
    /\ nzOut = <<"a", " ", "3", " ", "p", "o", "i", "n", "t", " ", "1", " ", "4", " ", "a">>

(***************************************************************************)
(* C20: "Mr." and "MR." become "Mister" only before a space and a capital  *)
(* letter; an occurrence not followed by a capital is left as it is.       *)
(***************************************************************************)
CapitalFollows == Len(nzAfter) >= 2 /\ nzAfter[1] = " " /\ nzAfter[2] \in Upper

C20_MisterOnlyBeforeCapital ==
    /\ nzPc \in {"done", "again"}
    /\ nzKind = "title"
    /\ nzToken \in {<<"M", "r", ".">>, <<"M", "R", ".">>}
    => nzOut = nzBefore
                 \o (IF CapitalFollows THEN <<"M", "i", "s", "t", "e", "r">> ELSE nzToken)
                 \o nzAfter

(***************************************************************************)
(* C21: "etc." becomes "etc" whenever it is not followed by a space and a  *)
(* capital letter (before a space and a lowercase letter, at the end of    *)
(* the text), and is left as it is when a capital follows.                 *)
(***************************************************************************)
C21_EtcUnlessCapital ==
    /\ nzPc \in {"done", "again"}
    /\ nzKind = "title"
    /\ nzToken = <<"e", "t", "c", ".">>
    => nzOut = nzBefore
                 \o (IF CapitalFollows THEN nzToken ELSE <<"e", "t", "c">>)
                 \o nzAfter

(***************************************************************************)
(* C22: the quotes are swapped before the parentheses are converted, so a  *)
(* guillemet made from a parenthesis is never swapped again: the output    *)
(* has no parenthesis and no curly quote, and as many left (right)         *)
(* guillemets as the input has "(" (")").                                  *)
(***************************************************************************)
CountOf(text, c) == Cardinality({k \in 1..Len(text) : text[k] = c})

C22_ParensAfterQuotes ==
    nzPc \in {"done", "again"} /\ ~nzThrew =>
        /\ \A k \in 1..Len(nzOut) : nzOut[k] \notin {"(", ")", LSQuo, RSQuo, LDQuo, RDQuo}
        /\ CountOf(nzOut, LGuil) = CountOf(NzText, "(")
        /\ CountOf(nzOut, RGuil) = CountOf(NzText, ")")

\* an input with a guillemet and a parenthesis: the first became a straight
\* quote and the second a guillemet
C22_Witness ==
    /\ nzPc = "done"
    /\ nzToken = <<LGuil, "a", "(">>
    /\ nzOut = <<"\"", "a", LGuil>>

(***************************************************************************)
(* C23: split never returns a segment with empty text, returns no segment  *)
(* for the empty input, and every match of PUNCTUATION_PATTERN consumes at *)
(* least one character, each match starting at or after the end of the one *)
(* before it, so the scan over the matches ends.                           *)
(***************************************************************************)
ScanOf(text) == matchAll(text, PUNCTUATION_PATTERN)

C23_NoEmptySegment ==
    splitPc = "done" =>
        /\ \A n \in 1..Len(splitOut) : Len(splitOut[n].text) > 0
        /\ splitText = <<>> => splitOut = <<>>
        /\ \A n \in 1..Len(ScanOf(splitText)) :
               /\ Len(ScanOf(splitText)[n].full) > 0
               /\ ScanOf(splitText)[n].index + Len(ScanOf(splitText)[n].full) <= Len(splitText)
               /\ n > 1 => ScanOf(splitText)[n].index >=
                             ScanOf(splitText)[n - 1].index + Len(ScanOf(splitText)[n - 1].full)

\* punctuation at both ends of the input: no empty content around it
C23_Witness ==
    /\ splitPc = "done"
    /\ splitText = <<".", "a", "!">>
    /\ Len(splitOut) = 3
    /\ splitOut[1].match /\ ~splitOut[2].match /\ splitOut[3].match

(***************************************************************************)
(* C30: the segments split returns alternate between punctuation and       *)
(* content; every punctuation segment holds a character of PUNCTUATION and *)
(* no content segment holds one.                                           *)
(***************************************************************************)
HasPunctuation(text) == \E k \in 1..Len(text) : text[k] \in PUNCTUATION

C30_MaximalRuns ==
    splitPc = "done" =>
        /\ \A n \in 1..(Len(splitOut) - 1) : splitOut[n].match # splitOut[n + 1].match
        /\ \A n \in 1..Len(splitOut) : splitOut[n].match = HasPunctuation(splitOut[n].text)

\* two punctuation marks with white space between them are one segment
C30_Witness ==
    /\ splitPc = "done"
    /\ splitText = <<".", " ", "!", "a">>
    /\ Len(splitOut) = 2
    /\ splitOut[1] = [match |-> TRUE, text |-> <<".", " ", "!">>]
    /\ splitOut[2] = [match |-> FALSE, text |-> <<"a">>]

(***************************************************************************)
(* C24: a whole dollar amount of any number of digits goes through all the *)
(* rules as one amount: "$N" becomes "N dollars", "1 dollar" for N = 1;    *)
(* the numbers pattern does not split N before the currency pattern.       *)
(***************************************************************************)
C24_WholeAmountSurvives ==
    /\ nzPc \in {"done", "again"}
    /\ nzKind = "amount"
    /\ nzToken[1] = "$"
    => nzOut = nzBefore \o Tail(nzToken) \o <<" ", "d", "o", "l", "l", "a", "r">>
                 \o (IF Tail(nzToken) = <<"1">> THEN <<>> ELSE <<"s">>) \o nzAfter

(***************************************************************************)
(* C25: whatever the text, the language and the backend output, the string *)
(* phonemize returns holds no "r", no "x", no palatalization mark and no   *)
(* lateral fricative: step 4 replaces them and no later rule brings one    *)
(* back.                                                                   *)
(***************************************************************************)
Substituted == {"r", "x", PalatalJ, BeltedL}

BackendSymbols(c) ==
    {s \in Substituted :
        \E i \in 1..Len(phSlots[c]) :
            \E k \in 1..Len(phSlots[c][i].value) : phSlots[c][i].value[k] = s}

C25_NoSubstitutedSymbol ==
    \A c \in Calls :
        phPc[c] = "returned" =>
            \A k \in 1..Len(phResult[c]) : phResult[c][k] \notin Substituted

\* the backend returned every one of the four symbols and the call returned
C25_Witness ==
    /\ phPc[1] = "returned"
    /\ BackendSymbols(1) = Substituted
    /\ phResult[1] # <<>>

(***************************************************************************)
(* C26: generate rejects a voice that is no key of VOICES before it does   *)
(* anything: the call throws and has invoked neither phonemize, the        *)
(* tokenizer, getVoiceData nor the model, no fetch was issued for it and   *)
(* the cache is as it was.  For a known voice the language handed to       *)
(* phonemize is the first character of the voice name.                     *)
(***************************************************************************)
Rejected(g) == genPc[g] # "idle" /\ genVoice[g] \notin VOICES

C26_VoiceCheckedFirst ==
    /\ \A g \in VoiceCallers :
          /\ Rejected(g) =>
                /\ genPc[g] = "thrown"
                /\ genOut[g] = GenThrown("voice not found")
                /\ genCalls[g] = <<>>
                /\ gvPc[g] = "idle"
                /\ \A n \in 1..Len(fetchLog) : fetchLog[n] # genVoice[g]
          /\ genPc[g] # "idle" /\ genVoice[g] \in VOICES =>
                genCalls[g][1] = Invoked("phonemize", Spelling(genVoice[g])[1])
    /\ (\A g \in VoiceCallers : genPc[g] = "idle" \/ Rejected(g)) => VoiceIdle

\* one call was rejected for its voice; the other, for a British voice, ran to
\* the model with the language "b"
C26_Witness ==
    /\ Rejected(1)
    /\ genVoice[1] = "toString"
    /\ genPc[2] = "running"
    /\ genVoice[2] = "bf_emma"
    /\ genCalls[2][1] = Invoked("phonemize", "b")
    /\ Len(genCalls[2]) = 4

(***************************************************************************)
(* C27: the listener answers every classification request exactly once.    *)
(* For a message whose action is "classify" it returns true, sendResponse  *)
(* is never called twice, and eventually it has been called once, with the *)
(* classification of the text; for any other action the listener returns   *)
(* nothing, sendResponse is never called, and the model is not loaded.     *)
(***************************************************************************)
Received(m) == lsPc[m] # "none"
ToClassify(m) == Received(m) /\ lsMessage[m].action = "classify"

AtMostOneResponse ==
    /\ \A m \in Messages :
          /\ ToClassify(m) => lsReturn[m] = "true" /\ Len(lsSent[m]) <= 1
          /\ Received(m) /\ ~ToClassify(m) => lsReturn[m] = "undefined" /\ lsSent[m] = <<>>
    /\ (\A m \in Messages : ~ToClassify(m)) => siStarted["PipelineSingleton"] = <<>>

C27_AnsweredExactlyOnce ==
    /\ []AtMostOneResponse
    /\ \A m \in Messages :
          ToClassify(m) ~> (lsSent[m] = <<Result(lsMessage[m].text)>>)

(***************************************************************************)
(* C28: getVoiceData changes voiceCache only on success.  In every step:   *)
(* the cache changes only when a call that was reading the body of an ok   *)
(* response returns, and then by the entry of its voice, which it returns; *)
(* a call that throws was fetching or reading, throws the error of its     *)
(* fetch and leaves the cache as it was; a call made while the cache has   *)
(* no entry for its voice issues a fetch, and a call made while it has one *)
(* returns that entry and issues none.  An entry is never removed.         *)
(***************************************************************************)
Settles(k, pc) == gvPc[k] # pc /\ gvPc'[k] = pc

CacheStep ==
    voiceCache' # voiceCache =>
        \E k \in VoiceCallers :
            /\ gvPc[k] = "reading" /\ gvPc'[k] = "returned"
            /\ voiceCache' = [voiceCache EXCEPT
                                 ![gvVoice[k]] = VoiceData(gvVoice[k], gvFetch[k])]
            /\ gvOut'[k] = voiceCache'[gvVoice[k]]

ThrowStep ==
    \A k \in VoiceCallers :
        Settles(k, "thrown") =>
            /\ gvPc[k] \in {"fetching", "reading"}
            /\ gvOut'[k] \in {VoiceError(what, gvVoice[k], gvFetch[k]) :
                                 what \in {"network", "status", "body"}}
            /\ voiceCache' = voiceCache
            /\ voiceCache[gvVoice[k]] # VoiceData(gvVoice[k], gvFetch[k])

CallStep ==
    gvCalls' # gvCalls =>
        \E k \in VoiceCallers, voice \in VoiceKeys :
            /\ gvPc[k] \in {"idle", "returned", "thrown"}
            /\ gvVoice'[k] = voice
            /\ \A j \in VoiceCallers \ {k} : gvPc'[j] = gvPc[j] /\ gvOut'[j] = gvOut[j]
            /\ voiceCache' = voiceCache
            /\ IF voiceCache[voice] = NoData
               THEN /\ gvPc'[k] = "fetching"
                    /\ gvFetch'[k] = Len(fetchLog) + 1
                    /\ fetchLog' = Append(fetchLog, voice)
               ELSE /\ gvPc'[k] = "returned"
                    /\ gvFetch'[k] = 0
                    /\ gvOut'[k] = voiceCache[voice]
                    /\ fetchLog' = fetchLog

C28_CacheOnlyOnSuccess ==
    [][/\ CacheStep
       /\ ThrowStep
       /\ CallStep
       /\ \A k \in VoiceCallers : Settles(k, "reading") => gvPc[k] = "fetching"
       /\ \A v \in VoiceKeys : voiceCache[v] # NoData => voiceCache'[v] # NoData]_vars

\* a fetch of a voice failed, a second one succeeded, and a third call of that
\* voice returned the cached data without a fetch
C28_Witness ==
    \E v \in VoiceKeys :
        /\ fetchLog = <<v, v>>
        /\ gvPc[1] = "thrown" /\ gvVoice[1] = v /\ gvFetch[1] = 1
        /\ voiceCache[v] = VoiceData(v, 2)
        /\ gvPc[2] = "returned" /\ gvVoice[2] = v /\ gvFetch[2] = 0
        /\ gvOut[2] = voiceCache[v]
        /\ gvCalls = 3

(***************************************************************************)
(* C29: PipelineSingleton.getInstance stores the pending load in the turn  *)
(* of its first call: pipeline() is invoked at most once, every call       *)
(* awaits that one load and settles as it does, and once the load has      *)
(* failed every call throws and no new load is started.  A failing load of *)
(* TTSPipelineSingleton or KokoroPipelineSingleton leaves instance as it   *)
(* was.                                                                    *)
(***************************************************************************)
PipelineOnce ==
    LET cls == "PipelineSingleton"
    IN  /\ Len(siStarted[cls]) <= 1
        /\ \A k \in InstanceCallers :
              /\ siPc[cls][k] # "idle" => siMine[cls][k] = 1 /\ siStarted[cls] = <<"pipeline">>
              /\ siPc[cls][k] = "returned" =>
                    siPromise = "fulfilled" /\ siOut[cls][k] = Instance(0, 1)
              /\ siPc[cls][k] = "thrown" => siPromise = "rejected"

FailedLoadNotStored ==
    \A cls \in {"TTSPipelineSingleton", "KokoroPipelineSingleton"}, k \in InstanceCallers :
        siPc[cls][k] # "thrown" /\ siPc'[cls][k] = "thrown" => siInstance'[cls] = siInstance[cls]

C29_PendingLoadStored ==
    [][PipelineOnce' /\ FailedLoadNotStored]_vars

\* the load failed; three calls were made, so one was made after a call had
\* thrown, and it threw as well without a second load
C29_Witness ==
    /\ siPromise = "rejected"
    /\ siCalls = 3
    /\ siStarted = [cls \in Classes |-> IF cls = "PipelineSingleton" THEN <<"pipeline">> ELSE <<>>]
    /\ \A k \in InstanceCallers : siPc["PipelineSingleton"][k] = "thrown"

====
